---- MODULE Spec2Model ----
(***************************************************************************)
(* Desktop helper (src/desktop-helper/src-tauri/src/main.rs): the          *)
(* allowlisted action catalog, the JWT gate, the command execution engine, *)
(* the rollback coordinator, the reporting client and the loopback HTTP    *)
(* execute endpoint, as a state machine over a set of request slots.       *)
(*                                                                         *)
(* A command string is a sequence of tokens in which the element WS stands *)
(* for a run of whitespace; every other element is a run of non-whitespace *)
(* characters.  A transcript (the String `output`) is the sequence of the  *)
(* pieces pushed onto it.                                                  *)
(***************************************************************************)
EXTENDS Integers, Sequences, FiniteSets, TLC

\* ------------------------------------------------------------------ bounds
\* The wall clock at the first request, and how many seconds it may advance.
NowStart == 100
MaxTicks == 1

\* jsonwebtoken's Validation::new(alg): validate_exp = true, leeway = 60 s.
Leeway == 60

\* ----------------------------------------------------------------- strings
WS == " "

\* str::split_whitespace().collect(): the non-whitespace runs, in order.
SplitWhitespace(command) == SelectSeq(command, LAMBDA t : t # WS)

\* A character outside ASCII in a literal of the source is written \\u{...},
\* the escape of a Rust string literal, with its code point in hexadecimal.
\* A String is the sequence of the pieces it was built from; a piece is the
\* template of a format!() call with the values it interpolated.
Fmt(template, args) == [ fmt |-> template, args |-> args ]
Str(template, args) == << Fmt(template, args) >>

None == [none |-> TRUE]
Some(v) == [some |-> v]
IsSome(o) == "some" \in DOMAIN o

\* general_purpose::STANDARD.encode(bytes)
Base64(text) == [b64 |-> text]

\* ----------------------------------------------------------------- catalog
\* ActionDefinition::new
NewAction(id, title, os, commands) ==
    [ id |-> id, title |-> title, os |-> os, commands |-> commands,
      rollback_commands |-> << >>, reversible |-> TRUE,
      estimated_time |-> "10 seconds",
      requirements |-> << "Administrator privileges" >>,
      creates_backup |-> FALSE ]

\* A builder that marks the backup but drops the rollback list it is given.
WithRollback_FlagOnly(def, rollback_commands) ==
    [ def EXCEPT !.creates_backup = TRUE ]

\* ActionDefinition::with_rollback
WithRollback(def, rollback_commands) ==
    [ def EXCEPT !.rollback_commands = rollback_commands,
                 !.creates_backup = TRUE ]

FlushDns ==
    NewAction("flush-dns-macos", "Flush DNS Cache (macOS)", "macos",
      << << "sudo", WS, "dscacheutil", WS, "-flushcache" >>,
         << "sudo", WS, "killall", WS, "-HUP", WS, "mDNSResponder" >> >>)

ToggleWifi ==
    WithRollback(
      NewAction("toggle-wifi-macos", "Toggle Wi\\u{201a}\\u{c4}\\u{eb}Fi (macOS)", "macos",
        << << "networksetup", WS, "-getairportpower", WS, "en0", WS, ">", WS,
              "/tmp/wifi_state_backup.txt" >>,
           << "networksetup", WS, "-setairportpower", WS, "en0", WS, "off" >>,
           << "sleep", WS, "2" >>,
           << "networksetup", WS, "-setairportpower", WS, "en0", WS, "on" >> >>),
      << << "if", WS, "grep", WS, "-q", WS, "'On'", WS,
            "/tmp/wifi_state_backup.txt;", WS, "then", WS, "networksetup", WS,
            "-setairportpower", WS, "en0", WS, "on;", WS, "else", WS,
            "networksetup", WS, "-setairportpower", WS, "en0", WS, "off;", WS,
            "fi" >>,
         << "rm", WS, "-f", WS, "/tmp/wifi_state_backup.txt" >> >>)

ClearAppCache ==
    WithRollback(
      NewAction("clear-app-cache", "Clear App Cache (macOS)", "macos",
        << << "mkdir", WS, "-p", WS, "/tmp/cache_backup_$(date", WS, "+%s)" >>,
           << "find", WS, "~/Library/Caches", WS, "-name", WS, "\"*.cache\"", WS,
              "-type", WS, "f", WS, "-exec", WS, "cp", WS, "{}", WS,
              "/tmp/cache_backup_$(date", WS, "+%s)/", WS, "\\;", WS,
              "2>/dev/null", WS, "||", WS, "true" >>,
           << "find", WS, "~/Library/Caches", WS, "-name", WS, "\"*.cache\"", WS,
              "-type", WS, "f", WS, "-delete", WS, "2>/dev/null", WS, "||", WS,
              "true" >> >>),
      << << "latest_backup=$(ls", WS, "-t", WS, "/tmp/cache_backup_*", WS, "|",
            WS, "head", WS, "-1)" >>,
         << "if", WS, "[", WS, "-d", WS, "\"$latest_backup\"", WS, "];", WS,
            "then", WS, "cp", WS, "\"$latest_backup\"/*", WS,
            "~/Library/Caches/", WS, "2>/dev/null", WS, "||", WS, "true;", WS,
            "fi" >> >>)

RestartFinder ==
    NewAction("restart-finder", "Restart Finder (macOS)", "macos",
      << << "killall", WS, "Finder" >> >>)

ClearRecentItems ==
    NewAction("clear-recent-items", "Clear Recent Items (macOS)", "macos",
      << << "defaults", WS, "delete", WS, "com.apple.recentitems", WS,
            "RecentApplications", WS, "2>/dev/null", WS, "||", WS, "true" >>,
         << "defaults", WS, "delete", WS, "com.apple.recentitems", WS,
            "RecentDocuments", WS, "2>/dev/null", WS, "||", WS, "true" >>,
         << "defaults", WS, "delete", WS, "com.apple.recentitems", WS,
            "RecentServers", WS, "2>/dev/null", WS, "||", WS, "true" >> >>)

ResetLaunchpad ==
    NewAction("reset-launchpad", "Reset Launchpad Layout (macOS)", "macos",
      << << "defaults", WS, "write", WS, "com.apple.dock", WS, "ResetLaunchPad",
            WS, "-bool", WS, "true" >>,
         << "killall", WS, "Dock" >> >>)

ClearSystemLogs ==
    NewAction("clear-system-logs", "Clear Old System Logs (macOS)", "macos",
      << << "sudo", WS, "rm", WS, "-rf", WS, "/private/var/log/asl/*.asl", WS,
            "2>/dev/null", WS, "||", WS, "true" >>,
         << "sudo", WS, "rm", WS, "-rf", WS,
            "/private/var/log/DiagnosticMessages/*.asl", WS, "2>/dev/null", WS,
            "||", WS, "true" >> >>)

CatalogEntries ==
    { FlushDns, ToggleWifi, ClearAppCache, RestartFinder, ClearRecentItems,
      ResetLaunchpad, ClearSystemLogs }

CatalogIds == { d.id : d \in CatalogEntries }

\* AppState::new: the HashMap built by the seven inserts.
NewCatalog == [ id \in CatalogIds |-> CHOOSE d \in CatalogEntries : d.id = id ]

DefaultSecret == "default-secret-change-in-production"

\* ------------------------------------------------------------------ tokens
\* A credential as the caller supplies it: either text that is no JWS, or a
\* JWS with its header algorithm, the key its signature was made with, and
\* its claims.
ClaimActionIds == { "flush-dns-macos", "clear-app-cache" }

ExpValues ==
    { NowStart - Leeway - 1, NowStart - Leeway, NowStart - 1, NowStart,
      NowStart + 1 }

MkClaims(exp, action_id) ==
    [ action_id |-> action_id, approval_id |-> "approval-1",
      scope |-> "automation:execute", exp |-> exp, iat |-> 0 ]

Jws(alg, key, claims) == [ form |-> "jws", alg |-> alg, key |-> key, claims |-> claims ]

EmptyToken == [ form |-> "empty" ]
GarbageToken == [ form |-> "garbage" ]

\* A credential issued for another action, another approval and another scope.
OtherScopeToken ==
    Jws("HS256", DefaultSecret,
        [ MkClaims(NowStart + 1, "flush-dns-macos") EXCEPT
            !.approval_id = "approval-2", !.scope = "diagnostics:read" ])

SignedTokens ==
    { Jws("HS256", DefaultSecret, MkClaims(e, a)) : e \in ExpValues, a \in ClaimActionIds }
    \cup { OtherScopeToken }

ForgedTokens ==
    { Jws("HS256", "attacker-secret", MkClaims(NowStart + 1, "clear-app-cache")),
      Jws("HS384", DefaultSecret, MkClaims(NowStart + 1, "clear-app-cache")),
      Jws("none", DefaultSecret, MkClaims(NowStart + 1, "clear-app-cache")) }

Tokens == { EmptyToken, GarbageToken } \cup ForgedTokens \cup SignedTokens

Ok(v) == [ ok |-> v ]
Err(e) == [ err |-> e ]
IsOk(r) == "ok" \in DOMAIN r

\* decode with the signature comparison left out.
DecodeToken_NoSignature(token, secret, now_) ==
    IF token.form # "jws" THEN Err("InvalidToken")
    ELSE IF token.alg # "HS256" THEN Err("InvalidAlgorithm")
    ELSE IF token.claims.exp < now_ - Leeway THEN Err("ExpiredSignature")
    ELSE Ok(token.claims)

\* jsonwebtoken::decode::<Claims>(token, DecodingKey::from_secret(secret),
\* Validation::new(Algorithm::HS256)) evaluated when the clock reads `now`.
DecodeToken(token, secret, now_) ==
    IF token.form # "jws" THEN Err("InvalidToken")
    ELSE IF token.alg # "HS256" THEN Err("InvalidAlgorithm")
    ELSE IF token.key # secret THEN Err("InvalidSignature")
    ELSE IF token.claims.exp < now_ - Leeway THEN Err("ExpiredSignature")
    ELSE Ok(token.claims)

\* The expiry test with the boundary included.
Expired_Inclusive(exp, now_) == exp <= now_

\* `claims.exp < now`
Expired(exp, now_) == exp < now_

\* headers.get("authorization") ... strip_prefix("Bearer ") ... unwrap_or("")
BearerToken(authorization) ==
    IF IsSome(authorization) /\ authorization.some.scheme = "Bearer"
    THEN authorization.some.credentials
    ELSE EmptyToken

\* A lookup that falls back to an entry of the map when the key is absent.
GetAction_Fallback(actions, action_id) ==
    IF action_id \in DOMAIN actions THEN Some(actions[action_id])
    ELSE Some(actions["flush-dns-macos"])

\* state.actions.get(&action_id)
GetAction(actions, action_id) ==
    IF action_id \in DOMAIN actions THEN Some(actions[action_id]) ELSE None

\* The reversibility test without the look at the rollback list.
NotReversible_FlagOnly(action) == ~action.reversible

\* `!action.reversible || action.rollback_commands.is_empty()`
NotReversible(action) ==
    ~action.reversible \/ action.rollback_commands = << >>

\* Every entry point handed the forward list.
CommandsOf_ForwardOnly(kind, action) == action.commands

\* The command list handed to execute_commands by each entry point.
CommandsOf(kind, action) ==
    IF kind = "rollback" THEN action.rollback_commands ELSE action.commands

\* The platform the binary is built for (every catalog entry is a macOS one).
TargetOs == "macos"

\* #[cfg(target_os = "macos")] if action.os != "macos"
OsIncompatible(os, action) == os = "macos" /\ action.os # "macos"

\* ------------------------------------------------------------------ engine
\* What a spawned child can end with (Output of Command::output()).
ExitOutcomes ==
    { [ success |-> TRUE,  stdout |-> "ok", stderr |-> "" ],
      [ success |-> TRUE,  stdout |-> "",   stderr |-> "" ],
      [ success |-> FALSE, stdout |-> "",   stderr |-> "boom" ] }

SpawnErrors == { "No such file or directory (os error 2)" }

\* The block of a step written only when the step exited with status zero.
OutputBlock_SuccessOnly(command, out) ==
    IF ~out.success THEN << >>
    ELSE << Fmt("Command: {}\n", << command >>) >>
         \o (IF out.stdout # "" THEN << Fmt("Output: {}\n", << out.stdout >>) >> ELSE << >>)
         \o (IF out.stderr # "" THEN << Fmt("Error: {}\n", << out.stderr >>) >> ELSE << >>)

\* The pieces pushed onto `output` in the Ok(result) arm.
OutputBlock(command, out) ==
    << Fmt("Command: {}\n", << command >>) >>
    \o (IF out.stdout # "" THEN << Fmt("Output: {}\n", << out.stdout >>) >> ELSE << >>)
    \o (IF out.stderr # "" THEN << Fmt("Error: {}\n", << out.stderr >>) >> ELSE << >>)

\* The piece pushed onto `output` in the Err(e) arm.
FailureBlock(command, e) ==
    << Fmt("Failed to execute command '{}': {}\n", << command, e >>) >>

\* execute_commands, before the loop.
EngineStart(f, commands) ==
    [ f EXCEPT !.commands = commands, !.output = << >>, !.all_success = TRUE,
               !.idx = 1, !.child = None ]

\* One iteration whose command has no token: `continue`.
SkipBlank(f) == [ f EXCEPT !.idx = @ + 1 ]

\* A spawn failure that ends the batch.
SpawnFailed_Break(f, e) ==
    [ f EXCEPT !.output = @ \o FailureBlock(f.commands[f.idx], e),
               !.all_success = FALSE,
               !.idx = Len(f.commands) + 1 ]

\* One iteration whose Command::output() returned Err(e).
SpawnFailed(f, e) ==
    [ f EXCEPT !.output = @ \o FailureBlock(f.commands[f.idx], e),
               !.all_success = FALSE,
               !.idx = @ + 1 ]

\* The flag assigned from the last step alone.
ChildExited_LastWins(f, out) ==
    [ f EXCEPT !.output = @ \o OutputBlock(f.commands[f.idx], out),
               !.all_success = out.success,
               !.idx = @ + 1,
               !.child = None ]

\* One iteration whose Command::output() returned Ok(result).
ChildExited(f, out) ==
    [ f EXCEPT !.output = @ \o OutputBlock(f.commands[f.idx], out),
               !.all_success = IF ~out.success THEN FALSE ELSE @,
               !.idx = @ + 1,
               !.child = None ]

\* `for command in commands`: whether the iterator has another element.
HasNext(f) == f.idx <= Len(f.commands)

\* `Ok((all_success, output))`, the value execute_commands returns.
EngineResult(f) == Ok([ success |-> f.all_success, output |-> f.output ])

\* create_artifacts
CreateArtifacts(action_id, output) ==
    << [ artifact_type |-> "execution_log", uri |-> None,
         hash |-> Some(Base64(output)), data |-> Some(output) ] >>

\* A rollback point that is recorded whatever the aggregate is.
RollbackPoint_Always(action_id, success, output, now_) ==
    Some([ method |-> "command_sequence",
           data |-> [ action_id |-> action_id, timestamp |-> now_,
                      output_hash |-> Base64(output) ] ])

\* report_result: `let rollback_point = if success { Some(RollbackPoint {..}) }
\* else { None }`; its timestamp is the clock read at that statement.
RollbackPoint(action_id, success, output, now_) ==
    IF success
    THEN Some([ method |-> "command_sequence",
                data |-> [ action_id |-> action_id, timestamp |-> now_,
                           output_hash |-> Base64(output) ] ])
    ELSE None

\* The JSON body built by report_result: the rollback point built before it,
\* and a timestamp of its own, the clock read again.
ReportPayload(action_id, success, output, rollback_point, now_) ==
    [ actionId |-> action_id, success |-> success, output |-> output,
      artifacts |-> CreateArtifacts(action_id, output),
      rollbackPoint |-> rollback_point,
      timestamp |-> now_ ]

\* The JSON body built by report_rollback_result.
RollbackReportPayload(action_id, rollback_id, success, output, now_) ==
    [ actionId |-> Str("{}_rollback", << action_id >>),
      rollbackId |-> rollback_id, success |-> success, output |-> output,
      artifacts |-> CreateArtifacts(Str("{}_rollback", << action_id >>), output),
      timestamp |-> now_ ]

\* What the POST to {server_url}/api/automation/helper/report can end with.
ReportResponses == { "2xx", "5xx", "transport error" }

\* The Result<(), String> of report_result.
ReportOutcome(response) ==
    IF response = "2xx" THEN Ok("sent")
    ELSE IF response = "transport error" THEN Err(Str("Failed to report result: {}", << response >>))
    ELSE Err(Str("Server returned status: {}", << response >>))

\* The Result<(), String> of report_rollback_result.
RollbackReportOutcome(response) ==
    IF response = "2xx" THEN Ok("sent")
    ELSE IF response = "transport error"
         THEN Err(Str("Failed to report rollback result: {}", << response >>))
    ELSE Err(Str("Server returned status: {}", << response >>))

\* A POST that authenticates as the agent itself, with a credential of its own.
PostReport_OwnCredential(token, payload) ==
    [ bearer |-> Jws("HS256", DefaultSecret, MkClaims(NowStart + 1, "helper")),
      payload |-> payload, outcome |-> None ]

\* The POST to the report endpoint as it is sent: `Authorization: Bearer
\* {token}` and the JSON body; what the call evaluates to is not known yet.
PostReport(token, payload) ==
    [ bearer |-> token, payload |-> payload, outcome |-> None ]

\* The values uuid::Uuid::new_v4().to_string() is drawn from.
Uuids == { "uuid-a", "uuid-b" }

\* uuid::Uuid::new_v4(): 122 random bits.  The program keeps no record of
\* the ids it handed out: every draw is any id.
NewV4 == Uuids

\* An execution outcome that hands out an id only when there is something to
\* roll back: the batch succeeded and the entry has a rollback list.
ExecuteResult_IdWhenUseful(action, success, output, uuid) ==
    [ success |-> success, message |-> output,
      error |-> IF success THEN None ELSE Some(output),
      artifacts |-> Some(CreateArtifacts(action.id, output)),
      rollback_id |-> IF success /\ action.rollback_commands # << >>
                      THEN Some(uuid) ELSE None ]

\* The ActionResult of execute_action's Ok((success, output)) arm.
ExecuteResult(action, success, output, uuid) ==
    [ success |-> success, message |-> output,
      error |-> IF success THEN None ELSE Some(output),
      artifacts |-> Some(CreateArtifacts(action.id, output)),
      rollback_id |-> IF action.reversible THEN Some(uuid) ELSE None ]

\* A rollback outcome that mints a correlation id as an execution does.
RollbackResult_Minting(success, output) ==
    [ success |-> success, message |-> output,
      error |-> IF success THEN None ELSE Some(output),
      artifacts |-> Some(<< >>),
      rollback_id |-> Some("uuid-a") ]

\* The ActionResult of execute_rollback's Ok((success, output)) arm.
RollbackResult(success, output) ==
    [ success |-> success, message |-> output,
      error |-> IF success THEN None ELSE Some(output),
      artifacts |-> Some(<< >>),
      rollback_id |-> None ]

\* AutomationExecuteResponse
HttpResponse(success, output) == [ success |-> success, output |-> output ]

\* ------------------------------------------------------------------- state
Req == { "r1" }

\* What callers may pass.
ActionIds == { "flush-dns-macos", "clear-app-cache", "no-such-action" }
Parameters == { "{}", "; rm -rf /" }
RollbackIds == { "uuid-a", "never-minted" }
Authorizations ==
    { None, Some([ scheme |-> "Basic", credentials |-> GarbageToken ]) }
    \cup { Some([ scheme |-> "Bearer", credentials |-> t ]) : t \in Tokens \ { EmptyToken } }

VARIABLES
    now,        \* the wall clock, seconds since the epoch
    server,     \* the control-plane task: "starting", "serving" or "not started"
    app_state,  \* Mutex<AppState>: [actions, jwt_secret]
    http_state, \* HttpState: [actions, jwt_secret]
    lock,       \* holder of the Mutex<AppState>, or "free"
    pc,         \* each request's position
    call,       \* each request's arguments
    frame,      \* each request's locals
    attempts,   \* each request's Command::output() calls so far
    events,     \* each request's emit_status calls so far
    reports,    \* each request's outbound report POSTs so far
    gate,       \* each request's passed credential checks
    result      \* what each request returned

vars ==
    << now, server, app_state, http_state, lock, pc, call, frame,
       attempts, events, reports, gate, result >>

NoCall == [ kind |-> "none" ]

EmptyFrame ==
    [ jwt_secret |-> None, action |-> None, token |-> EmptyToken,
      claims |-> None, commands |-> << >>, output |-> << >>,
      all_success |-> TRUE, idx |-> 1, child |-> None, result |-> None,
      rollback_point |-> None, post |-> None ]

\* AppState::new
NewAppState == [ actions |-> NewCatalog, jwt_secret |-> DefaultSecret ]

\* The HttpState built in spawn_status_server.
NewHttpState == [ actions |-> NewAppState.actions, jwt_secret |-> DefaultSecret ]

Init ==
    /\ now = NowStart
    /\ server = "starting"
    /\ app_state = NewAppState
    /\ http_state = NewHttpState
    /\ lock = "free"
    /\ pc = [ r \in Req |-> "idle" ]
    /\ call = [ r \in Req |-> NoCall ]
    /\ frame = [ r \in Req |-> EmptyFrame ]
    /\ attempts = [ r \in Req |-> << >> ]
    /\ events = [ r \in Req |-> << >> ]
    /\ reports = [ r \in Req |-> << >> ]
    /\ gate = [ r \in Req |-> { } ]
    /\ result = [ r \in Req |-> None ]

\* Utc::now() read at a later moment.
Tick ==
    /\ now < NowStart + MaxTicks
    /\ now' = now + 1
    /\ UNCHANGED << server, app_state, http_state, lock, pc, call,
                    frame, attempts, events, reports, gate, result >>

\* TcpListener::bind(addr) succeeded: axum::serve runs.
BindOk ==
    /\ server = "starting"
    /\ server' = "serving"
    /\ UNCHANGED << now, app_state, http_state, lock, pc, call,
                    frame, attempts, events, reports, gate, result >>

\* A bind whose error is unwrapped in the host's own thread: the process
\* aborts and no request is served any more.
BindFail_Unwrap ==
    /\ server = "starting"
    /\ server' = "not started"
    /\ pc' = [ r \in DOMAIN pc |-> "crashed" ]
    /\ UNCHANGED << now, app_state, http_state, lock, call,
                    frame, attempts, events, reports, gate, result >>

\* TcpListener::bind(addr) failed: the task logs and ends.
BindFail ==
    /\ server = "starting"
    /\ server' = "not started"
    /\ UNCHANGED << now, app_state, http_state, lock, pc, call,
                    frame, attempts, events, reports, gate, result >>

\* A request enters slot r with arguments c.
Fresh(r, c, token, next) ==
    /\ call' = [ call EXCEPT ![r] = c ]
    /\ frame' = [ frame EXCEPT ![r] = [ EmptyFrame EXCEPT !.token = token ] ]
    /\ pc' = [ pc EXCEPT ![r] = next ]
    /\ UNCHANGED << now, server, app_state, http_state, lock,
                    attempts, events, reports, gate, result >>

\* The caller has taken the returned value; the slot is free again.
Forget(r) ==
    /\ pc[r] = "done"
    /\ call' = [ call EXCEPT ![r] = NoCall ]
    /\ frame' = [ frame EXCEPT ![r] = EmptyFrame ]
    /\ attempts' = [ attempts EXCEPT ![r] = << >> ]
    /\ events' = [ events EXCEPT ![r] = << >> ]
    /\ reports' = [ reports EXCEPT ![r] = << >> ]
    /\ gate' = [ gate EXCEPT ![r] = { } ]
    /\ result' = [ result EXCEPT ![r] = None ]
    /\ pc' = [ pc EXCEPT ![r] = "idle" ]
    /\ UNCHANGED << now, server, app_state, http_state, lock >>

\* The shell invokes the tauri command execute_action.
InvokeExecute(r) ==
    /\ pc[r] = "idle"
    /\ \E a \in ActionIds, p \in Parameters, t \in Tokens :
        Fresh(r, [ kind |-> "execute", action_id |-> a, parameters |-> p, token |-> t ],
              t, "lock")

\* The shell invokes the tauri command execute_rollback.
InvokeRollback(r) ==
    /\ pc[r] = "idle"
    /\ \E a \in ActionIds, rb \in RollbackIds, t \in Tokens :
        Fresh(r, [ kind |-> "rollback", action_id |-> a, rollback_id |-> rb, token |-> t ],
              t, "lock")

\* POST /automation/execute reaches automation_execute_handler.
InvokeHttp(r) ==
    /\ pc[r] = "idle"
    /\ server = "serving"
    /\ \E a \in ActionIds, p \in Parameters, h \in Authorizations :
        Fresh(r, [ kind |-> "http", action_id |-> a, parameters |-> p, authorization |-> h ],
              BearerToken(h), "decode")

\* Return from the handler with value v.
Finish(r, v) ==
    /\ result' = [ result EXCEPT ![r] = Some(v) ]
    /\ pc' = [ pc EXCEPT ![r] = "done" ]

\* state.lock().unwrap()
Lock(r) ==
    /\ pc[r] = "lock"
    /\ lock = "free"
    /\ lock' = r
    /\ pc' = [ pc EXCEPT ![r] = "lookup" ]
    /\ UNCHANGED << now, server, app_state, http_state, call, frame,
                    attempts, events, reports, gate, result >>

\* A lookup whose guard is not dropped at the end of the block.
Lookup_KeepLock(r) ==
    /\ pc[r] = "lookup"
    /\ lock = r
    /\ LET found == GetAction(app_state.actions, call[r].action_id) IN
        IF IsSome(found)
        THEN /\ frame' = [ frame EXCEPT ![r].action = found,
                                        ![r].jwt_secret = Some(app_state.jwt_secret) ]
             /\ pc' = [ pc EXCEPT ![r] = "decode" ]
             /\ UNCHANGED result
        ELSE /\ Finish(r, Err(Str("Action '{}' not allowlisted", << call[r].action_id >>)))
             /\ UNCHANGED frame
    /\ UNCHANGED << now, server, app_state, http_state, lock, call,
                    attempts, events, reports, gate >>

\* A lookup that takes the entry out of the map instead of cloning it.
Lookup_Remove(r) ==
    /\ pc[r] = "lookup"
    /\ lock = r
    /\ lock' = "free"
    /\ LET found == GetAction(app_state.actions, call[r].action_id) IN
        IF IsSome(found)
        THEN /\ frame' = [ frame EXCEPT ![r].action = found,
                                        ![r].jwt_secret = Some(app_state.jwt_secret) ]
             /\ app_state' = [ app_state EXCEPT !.actions =
                                 [ id \in DOMAIN @ \ { call[r].action_id } |-> @[id] ] ]
             /\ pc' = [ pc EXCEPT ![r] = "decode" ]
             /\ UNCHANGED result
        ELSE /\ Finish(r, Err(Str("Action '{}' not allowlisted", << call[r].action_id >>)))
             /\ UNCHANGED << frame, app_state >>
    /\ UNCHANGED << now, server, http_state, call,
                    attempts, events, reports, gate >>

\* The block under the lock: get, clone, copy the secret; the guard drops.
Lookup(r) ==
    /\ pc[r] = "lookup"
    /\ lock = r
    /\ lock' = "free"
    /\ LET found == GetAction(app_state.actions, call[r].action_id) IN
        IF IsSome(found)
        THEN /\ frame' = [ frame EXCEPT ![r].action = found,
                                        ![r].jwt_secret = Some(app_state.jwt_secret) ]
             /\ pc' = [ pc EXCEPT ![r] = "decode" ]
             /\ UNCHANGED result
        ELSE /\ Finish(r, Err(Str("Action '{}' not allowlisted", << call[r].action_id >>)))
             /\ UNCHANGED frame
    /\ UNCHANGED << now, server, app_state, http_state, call,
                    attempts, events, reports, gate >>

\* A validation that also cross-checks the decoded claims against the
\* request: the action id must be the one requested and the scope the
\* execution scope.
Decode_CrossCheck(r) ==
    /\ pc[r] = "decode"
    /\ LET secret == IF call[r].kind = "http" THEN http_state.jwt_secret
                     ELSE frame[r].jwt_secret.some
           d == DecodeToken(frame[r].token, secret, now)
           accepted == IF IsOk(d)
                       THEN /\ d.ok.action_id = call[r].action_id
                            /\ d.ok.scope = "automation:execute"
                       ELSE FALSE IN
        IF accepted
        THEN /\ frame' = [ frame EXCEPT ![r].claims = Some(d.ok) ]
             /\ gate' = [ gate EXCEPT ![r] = @ \cup { [ check |-> "signature", at |-> now ] } ]
             /\ pc' = [ pc EXCEPT ![r] = "expiry" ]
             /\ UNCHANGED result
        ELSE /\ Finish(r, IF call[r].kind = "http"
                          THEN HttpResponse(FALSE, Str("Unauthorized", << >>))
                          ELSE Err(Str("Invalid token: {}", << "claims mismatch" >>)))
             /\ UNCHANGED << frame, gate >>
    /\ UNCHANGED << now, server, app_state, http_state, lock, call,
                    attempts, events, reports >>

\* An HTTP handler that consults the catalog before it validates the
\* credential, as the in-process commands do.
Decode_LookupFirst(r) ==
    /\ pc[r] = "decode"
    /\ LET secret == IF call[r].kind = "http" THEN http_state.jwt_secret
                     ELSE frame[r].jwt_secret.some
           d == DecodeToken(frame[r].token, secret, now)
           unknown == /\ call[r].kind = "http"
                      /\ ~IsSome(GetAction(http_state.actions, call[r].action_id)) IN
        IF unknown
        THEN /\ Finish(r, HttpResponse(FALSE,
                            Str("Action '{}' not allowlisted", << call[r].action_id >>)))
             /\ UNCHANGED << frame, gate >>
        ELSE IF IsOk(d)
        THEN /\ frame' = [ frame EXCEPT ![r].claims = Some(d.ok) ]
             /\ gate' = [ gate EXCEPT ![r] = @ \cup { [ check |-> "signature", at |-> now ] } ]
             /\ pc' = [ pc EXCEPT ![r] = "expiry" ]
             /\ UNCHANGED result
        ELSE /\ Finish(r, IF call[r].kind = "http"
                          THEN HttpResponse(FALSE, Str("Unauthorized", << >>))
                          ELSE Err(Str("Invalid token: {}", << d.err >>)))
             /\ UNCHANGED << frame, gate >>
    /\ UNCHANGED << now, server, app_state, http_state, lock, call,
                    attempts, events, reports >>

\* decode::<Claims>(...) and its error arm.
Decode(r) ==
    /\ pc[r] = "decode"
    /\ LET secret == IF call[r].kind = "http" THEN http_state.jwt_secret
                     ELSE frame[r].jwt_secret.some
           d == DecodeToken(frame[r].token, secret, now) IN
        IF IsOk(d)
        THEN /\ frame' = [ frame EXCEPT ![r].claims = Some(d.ok) ]
             /\ gate' = [ gate EXCEPT ![r] = @ \cup { [ check |-> "signature", at |-> now ] } ]
             /\ pc' = [ pc EXCEPT ![r] = "expiry" ]
             /\ UNCHANGED result
        ELSE /\ Finish(r, IF call[r].kind = "http"
                          THEN HttpResponse(FALSE, Str("Unauthorized", << >>))
                          ELSE Err(Str("Invalid token: {}", << d.err >>)))
             /\ UNCHANGED << frame, gate >>
    /\ UNCHANGED << now, server, app_state, http_state, lock, call,
                    attempts, events, reports >>

\* `if claims.exp < now { return ... "Token expired" }`
CheckExpiry(r) ==
    /\ pc[r] = "expiry"
    /\ IF Expired(frame[r].claims.some.exp, now)
       THEN /\ Finish(r, IF call[r].kind = "http"
                         THEN HttpResponse(FALSE, Str("Token expired", << >>))
                         ELSE Err(Str("Token expired", << >>)))
            /\ UNCHANGED gate
       ELSE /\ gate' = [ gate EXCEPT ![r] = @ \cup { [ check |-> "expiry", at |-> now ] } ]
            /\ pc' = [ pc EXCEPT ![r] =
                         CASE call[r].kind = "execute" -> "compat"
                           [] call[r].kind = "rollback" -> "reversible"
                           [] OTHER -> "http lookup" ]
            /\ UNCHANGED result
    /\ UNCHANGED << now, server, app_state, http_state, lock, call,
                    frame, attempts, events, reports >>

\* emit_status(app, message, status_type)
Emit(r, message, status_type) ==
    events' = [ events EXCEPT ![r] = Append(@, [ message |-> message, type |-> status_type ]) ]

\* execute_action: the OS check, the "executing" status, the call of the engine.
CheckCompat(r) ==
    /\ pc[r] = "compat"
    /\ LET action == frame[r].action.some IN
        IF OsIncompatible(TargetOs, action)
        THEN /\ Finish(r, Err(Str("Action '{}' not compatible with macOS",
                                  << call[r].action_id >>)))
             /\ UNCHANGED << frame, events >>
        ELSE /\ Emit(r, Str("\\u{201a}\\u{f6}\\u{b0} Executing {}...", << action.title >>), "executing")
             /\ frame' = [ frame EXCEPT ![r] = EngineStart(@, CommandsOf("execute", action)) ]
             /\ pc' = [ pc EXCEPT ![r] = "loop" ]
             /\ UNCHANGED result
    /\ UNCHANGED << now, server, app_state, http_state, lock, call,
                    attempts, reports, gate >>

\* A coordinator that looks the rollback id up among the ids executions were
\* given, and refuses one it does not know.
CheckReversible_KnownId(r) ==
    /\ pc[r] = "reversible"
    /\ LET action == frame[r].action.some IN
        IF NotReversible(action) \/ call[r].rollback_id \notin Uuids
        THEN /\ Finish(r, Err(Str("Action '{}' is not reversible", << call[r].action_id >>)))
             /\ UNCHANGED << frame, events >>
        ELSE /\ Emit(r, Str("\\u{f8ff}\\u{fc}\\u{ee}\\u{d1} Rolling back {}...", << action.title >>), "rolling_back")
             /\ frame' = [ frame EXCEPT ![r] = EngineStart(@, CommandsOf("rollback", action)) ]
             /\ pc' = [ pc EXCEPT ![r] = "loop" ]
             /\ UNCHANGED result
    /\ UNCHANGED << now, server, app_state, http_state, lock, call,
                    attempts, reports, gate >>

\* execute_rollback: the reversibility check, the "rolling_back" status, the
\* call of the engine.
CheckReversible(r) ==
    /\ pc[r] = "reversible"
    /\ LET action == frame[r].action.some IN
        IF NotReversible(action)
        THEN /\ Finish(r, Err(Str("Action '{}' is not reversible", << call[r].action_id >>)))
             /\ UNCHANGED << frame, events >>
        ELSE /\ Emit(r, Str("\\u{f8ff}\\u{fc}\\u{ee}\\u{d1} Rolling back {}...", << action.title >>), "rolling_back")
             /\ frame' = [ frame EXCEPT ![r] = EngineStart(@, CommandsOf("rollback", action)) ]
             /\ pc' = [ pc EXCEPT ![r] = "loop" ]
             /\ UNCHANGED result
    /\ UNCHANGED << now, server, app_state, http_state, lock, call,
                    attempts, reports, gate >>

\* An HTTP handler that hands the engine the rollback list of the entry.
HttpLookup_RollbackList(r) ==
    /\ pc[r] = "http lookup"
    /\ LET found == GetAction(http_state.actions, call[r].action_id) IN
        IF IsSome(found)
        THEN /\ frame' = [ frame EXCEPT ![r] =
                             EngineStart([ @ EXCEPT !.action = found ],
                                         CommandsOf("rollback", found.some)) ]
             /\ pc' = [ pc EXCEPT ![r] = "loop" ]
             /\ UNCHANGED result
        ELSE /\ Finish(r, HttpResponse(FALSE,
                            Str("Action '{}' not allowlisted", << call[r].action_id >>)))
             /\ UNCHANGED frame
    /\ UNCHANGED << now, server, app_state, http_state, lock, call,
                    attempts, events, reports, gate >>

\* automation_execute_handler: state.actions.get(&payload.actionId), then the
\* call of the engine.
HttpLookup(r) ==
    /\ pc[r] = "http lookup"
    /\ LET found == GetAction(http_state.actions, call[r].action_id) IN
        IF IsSome(found)
        THEN /\ frame' = [ frame EXCEPT ![r] =
                             EngineStart([ @ EXCEPT !.action = found ],
                                         CommandsOf("http", found.some)) ]
             /\ pc' = [ pc EXCEPT ![r] = "loop" ]
             /\ UNCHANGED result
        ELSE /\ Finish(r, HttpResponse(FALSE,
                            Str("Action '{}' not allowlisted", << call[r].action_id >>)))
             /\ UNCHANGED frame
    /\ UNCHANGED << now, server, app_state, http_state, lock, call,
                    attempts, events, reports, gate >>

\* One pass through the head of the loop of execute_commands: split the
\* command, skip it when blank, else call Command::new(program).args(args)
\* .output(), which either fails to spawn or starts a child and waits.
Spawn(r) ==
    /\ pc[r] = "loop"
    /\ HasNext(frame[r])
    /\ LET f == frame[r]
           command == f.commands[f.idx]
           parts == SplitWhitespace(command) IN
        IF parts = << >>
        THEN /\ frame' = [ frame EXCEPT ![r] = SkipBlank(f) ]
             /\ UNCHANGED << attempts, pc >>
        ELSE \E started \in BOOLEAN :
               /\ attempts' = [ attempts EXCEPT ![r] =
                                  Append(@, [ command |-> command, program |-> Head(parts),
                                              args |-> Tail(parts), index |-> f.idx,
                                              status |-> IF started THEN "running"
                                                         ELSE "spawn failed",
                                              out |-> None ]) ]
               /\ IF started
                  THEN /\ \E halts \in BOOLEAN :
                            frame' = [ frame EXCEPT ![r].child =
                                         Some([ program |-> Head(parts), args |-> Tail(parts),
                                                halts |-> halts ]) ]
                       /\ pc' = [ pc EXCEPT ![r] = "wait" ]
                  ELSE /\ \E e \in SpawnErrors :
                            frame' = [ frame EXCEPT ![r] = SpawnFailed(f, e) ]
                       /\ UNCHANGED pc
    /\ UNCHANGED << now, server, app_state, http_state, lock, call,
                    events, reports, gate, result >>

\* A wait that is cut short: the child is given up on although it never
\* terminates, and the batch goes on.
ChildExit_Timeout(r) ==
    /\ pc[r] = "wait"
    /\ \E out \in ExitOutcomes :
         /\ frame' = [ frame EXCEPT ![r] = ChildExited(frame[r], out) ]
         /\ attempts' = [ attempts EXCEPT ![r] =
                            [ @ EXCEPT ![Len(attempts[r])].status = "exited",
                                       ![Len(attempts[r])].out = Some(out) ] ]
    /\ pc' = [ pc EXCEPT ![r] = "loop" ]
    /\ UNCHANGED << now, server, app_state, http_state, lock, call,
                    events, reports, gate, result >>

\* The child terminates; Command::output() returns Ok(result).  The await has
\* no timeout: a child that never terminates keeps the request here.
ChildExit(r) ==
    /\ pc[r] = "wait"
    /\ frame[r].child.some.halts
    /\ \E out \in ExitOutcomes :
         /\ frame' = [ frame EXCEPT ![r] = ChildExited(frame[r], out) ]
         /\ attempts' = [ attempts EXCEPT ![r] =
                            [ @ EXCEPT ![Len(attempts[r])].status = "exited",
                                       ![Len(attempts[r])].out = Some(out) ] ]
    /\ pc' = [ pc EXCEPT ![r] = "loop" ]
    /\ UNCHANGED << now, server, app_state, http_state, lock, call,
                    events, reports, gate, result >>

\* An engine return after which only a successful batch is reported.
EngineReturn_ReportOnSuccess(r) ==
    /\ pc[r] = "loop"
    /\ ~HasNext(frame[r])
    /\ LET f == frame[r]
           title == f.action.some.title
           success == EngineResult(f).ok.success IN
        /\ frame' = [ frame EXCEPT ![r].result = Some(EngineResult(f)) ]
        /\ CASE call[r].kind = "execute" ->
                 Emit(r, Str(IF success THEN "\\u{201a}\\u{fa}\\u{d6} {} completed successfully"
                             ELSE "\\u{201a}\\u{f9}\\u{e5} {} failed",
                             << title >>),
                      IF success THEN "success" ELSE "error")
            [] call[r].kind = "rollback" ->
                 Emit(r, Str(IF success THEN "\\u{201a}\\u{fa}\\u{d6} {} rollback completed successfully"
                             ELSE "\\u{201a}\\u{f9}\\u{e5} {} rollback failed", << title >>),
                      IF success THEN "success" ELSE "error")
            [] OTHER -> UNCHANGED events
    /\ pc' = [ pc EXCEPT ![r] =
                 IF ~EngineResult(frame[r]).ok.success THEN "return"
                 ELSE IF call[r].kind = "rollback" THEN "post" ELSE "report" ]
    /\ UNCHANGED << now, server, app_state, http_state, lock, call,
                    attempts, reports, gate, result >>

\* execute_commands returns Ok((all_success, output)); the in-process callers
\* emit the final status.
EngineReturn(r) ==
    /\ pc[r] = "loop"
    /\ ~HasNext(frame[r])
    /\ LET f == frame[r]
           title == f.action.some.title
           success == EngineResult(f).ok.success IN
        /\ frame' = [ frame EXCEPT ![r].result = Some(EngineResult(f)) ]
        /\ CASE call[r].kind = "execute" ->
                 Emit(r, Str(IF success THEN "\\u{201a}\\u{fa}\\u{d6} {} completed successfully"
                             ELSE "\\u{201a}\\u{f9}\\u{e5} {} failed",
                             << title >>),
                      IF success THEN "success" ELSE "error")
            [] call[r].kind = "rollback" ->
                 Emit(r, Str(IF success THEN "\\u{201a}\\u{fa}\\u{d6} {} rollback completed successfully"
                             ELSE "\\u{201a}\\u{f9}\\u{e5} {} rollback failed", << title >>),
                      IF success THEN "success" ELSE "error")
            [] OTHER -> UNCHANGED events
    /\ pc' = [ pc EXCEPT ![r] = IF call[r].kind = "rollback" THEN "post" ELSE "report" ]
    /\ UNCHANGED << now, server, app_state, http_state, lock, call,
                    attempts, reports, gate, result >>

\* report_result, up to the body: the rollback point is built, with the clock
\* as it reads now.  report_rollback_result has no such statement.
ReportPoint(r) ==
    /\ pc[r] = "report"
    /\ LET res == frame[r].result.some.ok
           id == IF call[r].kind = "execute" THEN call[r].action_id
                 ELSE frame[r].action.some.id IN
        frame' = [ frame EXCEPT ![r].rollback_point =
                     RollbackPoint(id, res.success, res.output, now) ]
    /\ pc' = [ pc EXCEPT ![r] = "post" ]
    /\ UNCHANGED << now, server, app_state, http_state, lock, call,
                    attempts, events, reports, gate, result >>

\* report_result / report_rollback_result: the body is built, with the clock
\* read again, and the POST is sent; the handler is suspended at
\* `.send().await`.  The client has no timeout: the await completes when the
\* server answers or the transport fails, and otherwise never.
ReportSend(r) ==
    /\ pc[r] = "post"
    /\ LET f == frame[r]
           res == f.result.some.ok IN
        reports' = [ reports EXCEPT ![r] = Append(@,
          CASE call[r].kind = "execute" ->
                 PostReport(f.token,
                            ReportPayload(call[r].action_id, res.success, res.output,
                                          f.rollback_point, now))
            [] call[r].kind = "rollback" ->
                 PostReport(f.token,
                            RollbackReportPayload(call[r].action_id, call[r].rollback_id,
                                                  res.success, res.output, now))
            [] OTHER ->
                 PostReport(f.token,
                            ReportPayload(f.action.some.id, res.success, res.output,
                                          f.rollback_point, now))) ]
    /\ \E answers \in BOOLEAN :
         frame' = [ frame EXCEPT ![r].post = Some([ answers |-> answers ]) ]
    /\ pc' = [ pc EXCEPT ![r] = "report wait" ]
    /\ UNCHANGED << now, server, app_state, http_state, lock, call,
                    attempts, events, gate, result >>

\* A report whose failure is surfaced: a non-success response turns the
\* outcome about to be returned into a failure.
ReportDone_FailureSurfaces(r) ==
    /\ pc[r] = "report wait"
    /\ frame[r].post.some.answers
    /\ \E response \in ReportResponses :
         /\ reports' = [ reports EXCEPT ![r][Len(reports[r])].outcome =
                           Some(IF call[r].kind = "rollback"
                                THEN RollbackReportOutcome(response)
                                ELSE ReportOutcome(response)) ]
         /\ frame' = [ frame EXCEPT
                         ![r].post = None,
                         ![r].result =
                           Some(Ok([ success |-> @.some.ok.success /\ response = "2xx",
                                     output |-> @.some.ok.output ])) ]
    /\ pc' = [ pc EXCEPT ![r] = "return" ]
    /\ UNCHANGED << now, server, app_state, http_state, lock, call,
                    attempts, events, gate, result >>

\* The await of the POST completes: `match ... .send().await`, with a
\* response or a transport error; the callers log an Err and go on.
ReportDone(r) ==
    /\ pc[r] = "report wait"
    /\ frame[r].post.some.answers
    /\ \E response \in ReportResponses :
         reports' = [ reports EXCEPT ![r][Len(reports[r])].outcome =
                        Some(IF call[r].kind = "rollback"
                             THEN RollbackReportOutcome(response)
                             ELSE ReportOutcome(response)) ]
    /\ frame' = [ frame EXCEPT ![r].post = None ]
    /\ pc' = [ pc EXCEPT ![r] = "return" ]
    /\ UNCHANGED << now, server, app_state, http_state, lock, call,
                    attempts, events, gate, result >>

\* A return that reads the engine result from a buffer the requests share:
\* the value is built from the result of whichever request wrote it last.
Return_SharedResult(r) ==
    /\ pc[r] = "return"
    /\ \E q \in { p \in DOMAIN frame : IsSome(frame[p].result) } :
        LET f == frame[r]
            res == frame[q].result.some.ok IN
          CASE call[r].kind = "execute" ->
                 \E u \in NewV4 :
                   Finish(r, Ok(ExecuteResult(f.action.some, res.success, res.output, u)))
            [] call[r].kind = "rollback" ->
                 Finish(r, Ok(RollbackResult(res.success, res.output)))
            [] OTHER ->
                 Finish(r, HttpResponse(res.success, res.output))
    /\ UNCHANGED << now, server, app_state, http_state, lock, call,
                    frame, attempts, events, reports, gate >>

\* The value returned after the report.
Return(r) ==
    /\ pc[r] = "return"
    /\ LET f == frame[r]
           res == f.result.some.ok IN
        CASE call[r].kind = "execute" ->
               \E u \in NewV4 :
                 Finish(r, Ok(ExecuteResult(f.action.some, res.success, res.output, u)))
          [] call[r].kind = "rollback" ->
               Finish(r, Ok(RollbackResult(res.success, res.output)))
          [] OTHER ->
               Finish(r, HttpResponse(res.success, res.output))
    /\ UNCHANGED << now, server, app_state, http_state, lock, call,
                    frame, attempts, events, reports, gate >>

Next ==
    \/ Tick
    \/ BindOk
    \/ BindFail
    \/ \E r \in Req :
         \/ InvokeExecute(r)
         \/ InvokeRollback(r)
         \/ InvokeHttp(r)
         \/ Lock(r)
         \/ Lookup(r)
         \/ Decode(r)
         \/ CheckExpiry(r)
         \/ CheckCompat(r)
         \/ CheckReversible(r)
         \/ HttpLookup(r)
         \/ Spawn(r)
         \/ ChildExit(r)
         \/ EngineReturn(r)
         \/ ReportPoint(r)
         \/ ReportSend(r)
         \/ ReportDone(r)
         \/ Return(r)
         \/ Forget(r)

Spec == Init /\ [][Next]_vars

\* ------------------------------------------------- concurrent invocations
\* Tauri runs each invocation of an async command as a task of its own:
\* two in-process requests in flight at once, each invoked once.
Slots == { "r1", "r2" }

\* The credential of the concurrent callers: well signed and not expired.
ValidToken == Jws("HS256", DefaultSecret, MkClaims(NowStart + 1, "clear-app-cache"))

\* A credential that expired within the last minute.
ExpiredToken == Jws("HS256", DefaultSecret, MkClaims(NowStart - 1, "clear-app-cache"))

ConcCalls ==
    { [ kind |-> "execute", action_id |-> a, parameters |-> "{}", token |-> t ] :
        a \in { "restart-finder", "no-such-action" }, t \in { ValidToken, GarbageToken } }
    \cup
    { [ kind |-> "rollback", action_id |-> "clear-app-cache",
        rollback_id |-> "uuid-a", token |-> ValidToken ] }

InitConc ==
    /\ now = NowStart
    /\ server = "not started"
    /\ app_state = NewAppState
    /\ http_state = NewHttpState
    /\ lock = "free"
    /\ pc = [ r \in Slots |-> "idle" ]
    /\ call = [ r \in Slots |-> NoCall ]
    /\ frame = [ r \in Slots |-> EmptyFrame ]
    /\ attempts = [ r \in Slots |-> << >> ]
    /\ events = [ r \in Slots |-> << >> ]
    /\ reports = [ r \in Slots |-> << >> ]
    /\ gate = [ r \in Slots |-> { } ]
    /\ result = [ r \in Slots |-> None ]

\* The shell invokes execute_action or execute_rollback; each slot is one
\* invocation.
InvokeConc(r) ==
    /\ pc[r] = "idle"
    /\ result[r] = None
    /\ \E c \in ConcCalls : Fresh(r, c, c.token, "lock")

\* One step of the task of slot r.
StepConc(r) ==
    \/ Lock(r)
    \/ Lookup(r)
    \/ Decode(r)
    \/ CheckExpiry(r)
    \/ CheckCompat(r)
    \/ CheckReversible(r)
    \/ Spawn(r)
    \/ ChildExit(r)
    \/ EngineReturn(r)
    \/ ReportPoint(r)
    \/ ReportSend(r)
    \/ ReportDone(r)
    \/ Return(r)

NextConc ==
    \E r \in Slots :
        \/ InvokeConc(r)
        \/ StepConc(r)

\* Each invocation is a task of its own on the runtime's worker threads, and
\* the number of workers is the host's (one on a one-CPU host).
\* Command::output() is a blocking call: while a child runs, the worker that
\* polled its task is held, and another task is polled only if a worker is
\* left.  So a child that terminates is reaped, on the worker that waits for
\* it; and a task that can take a step is sure to be polled only when no
\* other task holds a worker in a wait for a child.
SpecConc ==
    /\ InitConc
    /\ [][NextConc]_vars
    /\ \A r \in Slots :
         /\ WF_vars(ChildExit(r))
         /\ WF_vars(StepConc(r) /\ \A q \in Slots \ { r } : pc[q] # "wait")

\* ------------------------------------------------- the two execute paths
\* One action id and one credential are given to both execute paths at once:
\* slot "r1" is the in-process command, slot "r2" the HTTP handler, which gets
\* the credential as `Authorization: Bearer <token>`.
MirrorActionIds == { "restart-finder", "flush-dns-macos", "no-such-action" }

FarExpiredToken ==
    Jws("HS256", DefaultSecret, MkClaims(NowStart - Leeway - 1, "clear-app-cache"))

ForgedToken == Jws("HS256", "attacker-secret", MkClaims(NowStart + 1, "clear-app-cache"))

MirrorTokens == { ValidToken, ExpiredToken, FarExpiredToken, ForgedToken, GarbageToken }

InitMirror ==
    /\ now = NowStart
    /\ server = "starting"
    /\ app_state = NewAppState
    /\ http_state = NewHttpState
    /\ lock = "free"
    /\ pc = [ r \in Slots |-> "idle" ]
    /\ call = [ r \in Slots |-> NoCall ]
    /\ frame = [ r \in Slots |-> EmptyFrame ]
    /\ attempts = [ r \in Slots |-> << >> ]
    /\ events = [ r \in Slots |-> << >> ]
    /\ reports = [ r \in Slots |-> << >> ]
    /\ gate = [ r \in Slots |-> { } ]
    /\ result = [ r \in Slots |-> None ]

\* execute_action and POST /automation/execute are entered with the same
\* action id and the same credential.
InvokeMirror ==
    /\ server = "serving"
    /\ pc["r1"] = "idle" /\ pc["r2"] = "idle"
    /\ \E a \in MirrorActionIds, t \in MirrorTokens :
         LET h == Some([ scheme |-> "Bearer", credentials |-> t ]) IN
           /\ call' = [ call EXCEPT
                          !["r1"] = [ kind |-> "execute", action_id |-> a,
                                      parameters |-> "{}", token |-> t ],
                          !["r2"] = [ kind |-> "http", action_id |-> a,
                                      parameters |-> "{}", authorization |-> h ] ]
           /\ frame' = [ frame EXCEPT
                           !["r1"] = [ EmptyFrame EXCEPT !.token = t ],
                           !["r2"] = [ EmptyFrame EXCEPT !.token = BearerToken(h) ] ]
    /\ pc' = [ pc EXCEPT !["r1"] = "lock", !["r2"] = "decode" ]
    /\ UNCHANGED << now, server, app_state, http_state, lock,
                    attempts, events, reports, gate, result >>

NextMirror ==
    \/ BindOk
    \/ BindFail
    \/ InvokeMirror
    \/ \E r \in Slots :
         \/ Lock(r)
         \/ Lookup(r)
         \/ Decode(r)
         \/ CheckExpiry(r)
         \/ CheckCompat(r)
         \/ HttpLookup(r)
         \/ Spawn(r)
         \/ ChildExit(r)
         \/ EngineReturn(r)
         \/ ReportPoint(r)
         \/ ReportSend(r)
         \/ ReportDone(r)
         \/ Return(r)

SpecMirror == InitMirror /\ [][NextMirror]_vars

\* ------------------------------------------------------- platform probes
\* Tool output is text; the model keeps it as a sequence of pieces cut at the
\* boundaries of the phrases the handlers search for, of the whitespace they
\* trim and of the line ends they split at.  A pattern is such a sequence too.
ProbeNames == { "updates", "firewall", "av", "filevault", "timemachine", "sip" }

\* `text.contains(pattern)`
Contains(text, pattern) ==
    \E i \in 1..(Len(text) - Len(pattern) + 1) :
        SubSeq(text, i, i + Len(pattern) - 1) = pattern

\* char::to_lowercase on one piece.
LowerPiece(piece) ==
    CASE piece = "FileVault is On" -> "filevault is on"
      [] piece = "FileVault is Off" -> "filevault is off"
      [] piece = "System Integrity Protection status: " ->
           "system integrity protection status: "
      [] piece = "Firewall is " -> "firewall is "
      [] piece = "State = 1" -> "state = 1"
      [] piece = "State = 0" -> "state = 0"
      [] piece = "Enabled" -> "enabled"
      [] piece = "No new software available." -> "no new software available."
      [] piece = "Software Update found the following new or updated software:" ->
           "software update found the following new or updated software:"
      [] piece = "Label:" -> "label:"
      [] piece = " macOS 14.1" -> " macos 14.1"
      [] piece = "Title: macOS 14.1" -> "title: macos 14.1"
      [] piece = " Safari17" -> " safari17"
      [] piece = "/Applications/Microsoft " -> "/applications/microsoft "
      [] piece = "Defender" -> "defender"
      [] piece = ".app/Contents/MacOS/wdavdaemon" -> ".app/contents/macos/wdavdaemon"
      [] piece = "/Library/" -> "/library/"
      [] piece = "Sophos" -> "sophos"
      [] piece = " Anti-Virus/ScanD" -> " anti-virus/scand"
      [] piece = "Backup session status:" -> "backup session status:"
      [] piece = "Running = 1" -> "running = 1"
      [] piece = "/Volumes/TM/2026-10-29-120000.backup" ->
           "/volumes/tm/2026-10-29-120000.backup"
      [] piece = "No such file or directory (os error 2)" ->
           "no such file or directory (os error 2)"
      [] OTHER -> piece

\* `text.to_lowercase()`
ToLowercase(text) == [ i \in DOMAIN text |-> LowerPiece(text[i]) ]

\* char::is_whitespace, for a piece.
IsSpace(piece) == piece \in { " ", "\t", "\n" }

\* `text.trim_start()`
TrimStart(text) ==
    LET body == { i \in DOMAIN text : ~IsSpace(text[i]) } IN
      IF body = { } THEN << >>
      ELSE SubSeq(text, CHOOSE i \in body : \A j \in body : i <= j, Len(text))

\* `text.trim()`
Trim(text) ==
    LET body == { i \in DOMAIN text : ~IsSpace(text[i]) } IN
      IF body = { } THEN << >>
      ELSE SubSeq(text, CHOOSE i \in body : \A j \in body : i <= j,
                        CHOOSE i \in body : \A j \in body : j <= i)

\* `text.trim().is_empty()`
TrimIsEmpty(text) == Trim(text) = << >>

\* `text.lines()`: where the lines start, and the line that starts at s.
LineStarts(text) == { s \in DOMAIN text : s = 1 \/ text[s - 1] = "\n" }
LineAt(text, s) ==
    LET ends == { i \in s..Len(text) : text[i] = "\n" } IN
      IF ends = { } THEN SubSeq(text, s, Len(text))
      ELSE SubSeq(text, s, (CHOOSE i \in ends : \A j \in ends : i <= j) - 1)

\* `products.join(sep)`
RECURSIVE Join(_, _)
Join(items, sep) ==
    IF items = << >> THEN << >>
    ELSE IF Len(items) = 1 THEN << items[1] >>
    ELSE << items[1], sep >> \o Join(Tail(items), sep)

\* What the tools print on stdout.
ProbeStdouts ==
    { << "Firewall is ", "enabled", ". (", "State = 1", ")" >>,
      << "Firewall is ", "disabled", ". (", "State = 0", ")" >>,
      << "FileVault is On", "." >>,
      << "FileVault is Off", "." >>,
      << "System Integrity Protection status: ", "enabled", "." >>,
      << "System Integrity Protection status: ", "disabled", "." >>,
      << "System Integrity Protection status: ", "Enabled", "." >>,
      << "No new software available.", "\n" >>,
      << "Software Update found the following new or updated software:", "\n",
         "*", " ", "Label:", " macOS 14.1", "\n",
         "\t", "Title: macOS 14.1", "\n",
         " ", " ", "*", " Safari17", "\n" >>,
      << "assessments ", "enabled", "\n" >>,
      << "assessments ", "disabled", "\n" >>,
      << "/usr/sbin/cfprefsd", "\n",
         "/Applications/Microsoft ", "Defender", ".app/Contents/MacOS/wdavdaemon", "\n",
         "/Library/", "Sophos", " Anti-Virus/ScanD", "\n" >>,
      << "5287", "\n" >>,
      << "Backup session status:", "\n", "{", "\n", " ", "Running = 1", ";", "\n",
         "}", "\n" >>,
      << "/Volumes/TM/2026-10-29-120000.backup", "\n" >>,
      << "(null)", "\n" >>,
      << >> }

ProbeStderrs == { << >>, << " ", "\n" >>, << "usage: tool [options]" >> }

\* What Command::output() of a probe tool can evaluate to.
ProbeOutputs ==
    { Ok([ success |-> TRUE, stdout |-> o, stderr |-> << >> ]) : o \in ProbeStdouts }
    \cup { Ok([ success |-> FALSE, stdout |-> << >>, stderr |-> e ]) : e \in ProbeStderrs }
    \cup { Ok([ success |-> TRUE, stdout |-> << "5287", "\n" >>, stderr |-> e ]) :
             e \in ProbeStderrs }
    \cup { Err(<< e >>) : e \in SpawnErrors }

\* run_command_capture
RunCommandCapture(output) ==
    IF IsOk(output)
    THEN << output.ok.success,
            output.ok.stdout \o
              (IF ~TrimIsEmpty(output.ok.stderr) THEN << "\n" >> \o output.ok.stderr
               ELSE << >>) >>
    ELSE << FALSE, output.err >>

\* macos_updates_handler: the number of pending updates read off the text.
UpdatesPending(out) ==
    IF Contains(out, << "No new software available." >>) THEN 0
    ELSE Cardinality({ s \in LineStarts(out) :
                         LET l == LineAt(out, s) IN
                           \/ TrimStart(l) # << >> /\ TrimStart(l)[1] = "*"
                           \/ Contains(l, << "Label:" >>) })

\* The `enabled` the firewall, FileVault and SIP handlers derive from the
\* captured text.
ProbeEnabled(name, out) ==
    CASE name = "firewall" ->
           Contains(out, << "enabled" >>) \/ Contains(out, << "State = 1" >>)
      [] name = "filevault" -> Contains(ToLowercase(out), << "filevault is on" >>)
      [] OTHER -> Contains(ToLowercase(out), << "enabled" >>)

\* macos_av_handler: the process names searched for, in its order.
AvPatterns ==
    << "Sophos", "Malwarebytes", "McAfee", "Symantec", "Norton", "CrowdStrike",
       "SentinelOne", "Defender", "ESET", "Avast", "AVG" >>

\* macos_av_handler: the files that may hold the XProtect version, each with
\* the command that reads it.
XProtectCandidates ==
    << [ plist |-> "/System/Library/CoreServices/XProtect.bundle/Contents/Info.plist",
         cmd |-> << "/usr/bin/defaults", "read",
                    "/System/Library/CoreServices/XProtect.bundle/Contents/Info",
                    "CFBundleShortVersionString" >> ],
       [ plist |-> "/Library/Apple/System/Library/CoreServices/XProtect.app/Contents/Info.plist",
         cmd |-> << "/usr/bin/defaults", "read",
                    "/Library/Apple/System/Library/CoreServices/XProtect.app/Contents/Info",
                    "CFBundleShortVersionString" >> ] >>

\* The tools each handler runs whatever they print: program and arguments.
ProbeCommands(name) ==
    CASE name = "updates" -> << << "/usr/sbin/softwareupdate", "-l", "--no-scan" >> >>
      [] name = "firewall" ->
           << << "/usr/libexec/ApplicationFirewall/socketfilterfw", "--getglobalstate" >> >>
      [] name = "av" -> << << "/usr/sbin/spctl", "--status" >>,
                           << "/bin/ps", "-A", "-o", "comm" >> >>
      [] name = "filevault" -> << << "/usr/bin/fdesetup", "status" >> >>
      [] name = "timemachine" -> << << "/usr/bin/tmutil", "status" >>,
                                    << "/usr/bin/tmutil", "latestbackup" >> >>
      [] OTHER -> << << "/usr/bin/csrutil", "status" >> >>

\* The JSON of macos_av_handler, from the texts captured in the order run:
\* spctl, ps, then the candidates read.  The loop over the candidates ends at
\* the first text that is not blank, so a version is the last text captured.
AvResponse(outs) ==
    LET spctl_out == outs[1]
        ps_out == outs[2]
        products == SelectSeq(AvPatterns, LAMBDA pat : Contains(ps_out, << pat >>))
        v == IF Len(outs) > 2 THEN Trim(outs[Len(outs)]) ELSE << >> IN
      [ supported |-> TRUE,
        gatekeeper_enabled |->
          Contains(ToLowercase(spctl_out), << "assessments ", "enabled" >>),
        third_party_detected |-> products # << >>,
        products |-> products,
        xprotect_version |-> IF v # << >> THEN Some(v) ELSE None,
        raw |-> Str("spctl: {}\nprocesses: {}",
                    << Trim(spctl_out), Join(products, ", ") >>) ]

\* The JSON of macos_timemachine_handler.
TimeMachineResponse(outs) ==
    LET status_out == outs[1]
        latest_out == outs[2]
        configured == Trim(latest_out) # << >> /\ ~Contains(latest_out, << "(null)" >>) IN
      [ supported |-> TRUE,
        configured |-> configured,
        running |-> Contains(status_out, << "Running = 1" >>),
        latest_backup |-> IF configured THEN Some(Trim(latest_out)) ELSE None,
        raw |-> Str("status: {}\nlatest: {}",
                    << Trim(status_out), Trim(latest_out) >>) ]

\* The JSON a probe handler answers with on the given platform, from the
\* texts it captured.
ProbeResponse(os, name, outs) ==
    IF os = "macos"
    THEN CASE name = "updates" ->
                [ supported |-> TRUE, pending |-> UpdatesPending(outs[1]), raw |-> outs[1] ]
           [] name = "av" -> AvResponse(outs)
           [] name = "timemachine" -> TimeMachineResponse(outs)
           [] OTHER ->
                [ supported |-> TRUE, enabled |-> ProbeEnabled(name, outs[1]),
                  raw |-> outs[1] ]
    ELSE CASE name = "updates" -> [ supported |-> FALSE, pending |-> 0, raw |-> << >> ]
           [] name = "av" ->
                [ supported |-> FALSE, gatekeeper_enabled |-> FALSE,
                  third_party_detected |-> FALSE, products |-> << >>,
                  xprotect_version |-> None, raw |-> << >> ]
           [] name = "timemachine" ->
                [ supported |-> FALSE, configured |-> FALSE, running |-> FALSE,
                  latest_backup |-> None, raw |-> << >> ]
           [] OTHER -> [ supported |-> FALSE, enabled |-> FALSE, raw |-> << >> ]

\* GET /health/macos/{updates,firewall,av,filevault,timemachine,sip} reaches
\* its handler.
InvokeProbe(r) ==
    /\ pc[r] = "idle"
    /\ server = "serving"
    /\ \E name \in ProbeNames :
         call' = [ call EXCEPT ![r] = [ kind |-> "probe", name |-> name ] ]
    /\ pc' = [ pc EXCEPT ![r] = "probe" ]
    /\ UNCHANGED << now, server, app_state, http_state, lock, frame,
                    attempts, events, reports, gate, result >>

\* The texts the tools of request r returned to the handler, in the order run.
Captured(r) ==
    [ k \in DOMAIN attempts[r] |-> RunCommandCapture(attempts[r][k].output.some)[2] ]

\* After the tool of a candidate returned `out`: `if !v.is_empty() { ...; break }`.
CandidateDone(f, out) ==
    [ f EXCEPT !.idx = IF Trim(out) # << >> THEN Len(XProtectCandidates) + 1 ELSE @ + 1,
               !.child = None ]

\* run_command_capture is entered: Command::new(cmd).args(args).output()
\* fails to spawn the tool, or starts it and blocks until it exits.  In the
\* loop of macos_av_handler a candidate whose file does not exist is passed
\* over.
ProbeSpawn(r) ==
    /\ pc[r] = "probe"
    /\ TargetOs = "macos"
    /\ LET fixed == ProbeCommands(call[r].name)
           n == Len(attempts[r])
           loop == n >= Len(fixed) IN
        /\ loop => call[r].name = "av" /\ frame[r].idx <= Len(XProtectCandidates)
        /\ \E exists \in IF loop THEN BOOLEAN ELSE { TRUE } :
             IF ~exists
             THEN /\ frame' = [ frame EXCEPT ![r].idx = @ + 1 ]
                  /\ UNCHANGED << attempts, pc >>
             ELSE LET cmd == IF loop THEN XProtectCandidates[frame[r].idx].cmd
                             ELSE fixed[n + 1] IN
                    \E started \in BOOLEAN :
                      IF started
                      THEN /\ attempts' = [ attempts EXCEPT ![r] =
                                  Append(@, [ program |-> Head(cmd), args |-> Tail(cmd),
                                              status |-> "running", output |-> None ]) ]
                           /\ \E halts \in BOOLEAN :
                                frame' = [ frame EXCEPT ![r].child =
                                             Some([ program |-> Head(cmd), args |-> Tail(cmd),
                                                    halts |-> halts ]) ]
                           /\ pc' = [ pc EXCEPT ![r] = "probe wait" ]
                      ELSE \E e \in SpawnErrors :
                           /\ attempts' = [ attempts EXCEPT ![r] =
                                  Append(@, [ program |-> Head(cmd), args |-> Tail(cmd),
                                              status |-> "spawn failed",
                                              output |-> Some(Err(<< e >>)) ]) ]
                           /\ frame' = [ frame EXCEPT ![r] =
                                           IF loop THEN CandidateDone(@, << e >>) ELSE @ ]
                           /\ UNCHANGED pc
    /\ UNCHANGED << now, server, app_state, http_state, lock, call,
                    events, reports, gate, result >>

\* The tool exits and Command::output() returns Ok(out).  Nothing bounds the
\* wait: a tool that never exits keeps the handler here.
ProbeExit(r) ==
    /\ pc[r] = "probe wait"
    /\ frame[r].child.some.halts
    /\ \E output \in { o \in ProbeOutputs : IsOk(o) } :
         /\ attempts' = [ attempts EXCEPT ![r] =
                            [ @ EXCEPT ![Len(attempts[r])].status = "exited",
                                       ![Len(attempts[r])].output = Some(output) ] ]
         /\ frame' = [ frame EXCEPT ![r] =
                         IF call[r].name = "av"
                            /\ Len(attempts[r]) > Len(ProbeCommands("av"))
                         THEN CandidateDone(@, RunCommandCapture(output)[2])
                         ELSE [ @ EXCEPT !.child = None ] ]
    /\ pc' = [ pc EXCEPT ![r] = "probe" ]
    /\ UNCHANGED << now, server, app_state, http_state, lock, call,
                    events, reports, gate, result >>

\* The handler has run its tools (none, on another platform), derives its
\* answer from the captured texts and returns it.
ProbeAnswer(r) ==
    /\ pc[r] = "probe"
    /\ \/ TargetOs # "macos"
       \/ /\ Len(attempts[r]) >= Len(ProbeCommands(call[r].name))
          /\ call[r].name = "av" => frame[r].idx > Len(XProtectCandidates)
    /\ Finish(r, ProbeResponse(TargetOs, call[r].name, Captured(r)))
    /\ UNCHANGED << now, server, app_state, http_state, lock, call, frame,
                    attempts, events, reports, gate >>

NextProbe ==
    \/ BindOk
    \/ BindFail
    \/ \E r \in Req :
         \/ InvokeProbe(r)
         \/ ProbeSpawn(r)
         \/ ProbeExit(r)
         \/ ProbeAnswer(r)
         \/ Forget(r)

SpecProbe == Init /\ [][NextProbe]_vars

\* ------------------------------------------------------ scheduled requests
\* The tauri command get_health_status.
GetHealthStatus(r) ==
    /\ pc[r] = "idle"
    /\ call' = [ call EXCEPT ![r] = [ kind |-> "health" ] ]
    /\ Finish(r, Ok([ status |-> "healthy", version |-> "0.1.0",
                      timestamp |-> now, actions_available |-> 7 ]))
    /\ UNCHANGED << now, server, app_state, http_state, lock, frame,
                    attempts, events, reports, gate >>

\* The in-process commands under the runtime's scheduling: a task that can
\* take a step is polled, a child that terminates is reaped, and a report
\* POST that is answered (or fails in transport) wakes its handler.
LiveCalls ==
    { [ kind |-> "execute", action_id |-> a, parameters |-> "{}", token |-> t ] :
        a \in { "flush-dns-macos", "no-such-action" },
        t \in { ValidToken, ExpiredToken, GarbageToken } }
    \cup
    { [ kind |-> "rollback", action_id |-> a, rollback_id |-> "uuid-a", token |-> ValidToken ] :
        a \in { "clear-app-cache", "restart-finder" } }

InvokeLive(r) ==
    /\ pc[r] = "idle"
    /\ \E c \in LiveCalls : Fresh(r, c, c.token, "lock")

\* One step of the handler of request r.
StepLive(r) ==
    \/ Lock(r)
    \/ Lookup(r)
    \/ Decode(r)
    \/ CheckExpiry(r)
    \/ CheckCompat(r)
    \/ CheckReversible(r)
    \/ Spawn(r)
    \/ ChildExit(r)
    \/ EngineReturn(r)
    \/ ReportPoint(r)
    \/ ReportSend(r)
    \/ ReportDone(r)
    \/ Return(r)

NextLive ==
    \E r \in Req :
        \/ InvokeLive(r)
        \/ StepLive(r)
        \/ Forget(r)

SpecLive ==
    /\ Init
    /\ [][NextLive]_vars
    /\ WF_vars(\E r \in Req : StepLive(r))

\* ------------------------------------------------- the host and its server
\* The host with its control-plane task: the bind succeeds or fails, the
\* in-process commands are invoked by the shell, the probes over HTTP.
NextHost ==
    \/ BindOk
    \/ BindFail
    \/ \E r \in Req :
         \/ InvokeLive(r)
         \/ StepLive(r)
         \/ GetHealthStatus(r)
         \/ InvokeProbe(r)
         \/ ProbeSpawn(r)
         \/ ProbeExit(r)
         \/ ProbeAnswer(r)
         \/ Forget(r)

SpecHost == Init /\ [][NextHost]_vars

\* -------------------------------------------------------------- properties
\* The credential the caller supplied with request r.
Supplied(r) ==
    CASE call[r].kind = "http" ->
           IF IsSome(call[r].authorization)
           THEN call[r].authorization.some.credentials ELSE EmptyToken
      [] call[r].kind \in { "execute", "rollback" } -> call[r].token
      [] OTHER -> EmptyToken

\* A JWS under the configured algorithm, signed with the configured secret.
WellSigned(token) ==
    token.form = "jws" /\ token.alg = "HS256" /\ token.key = DefaultSecret

InProcess(r) == call[r].kind \in { "execute", "rollback" }

\* Request r has returned a rejection, and not an outcome of the engine.
Rejected(r) ==
    /\ pc[r] = "done"
    /\ IF InProcess(r) THEN ~IsOk(result[r].some)
       ELSE result[r].some \in
              { HttpResponse(FALSE, Str("Unauthorized", << >>)),
                HttpResponse(FALSE, Str("Token expired", << >>)),
                HttpResponse(FALSE, Str("Action '{}' not allowlisted",
                                        << call[r].action_id >>)) }

\* The list the catalog built at startup holds for an entry point and an id.
CatalogCommands(kind, action_id) ==
    IF kind = "rollback" THEN NewCatalog[action_id].rollback_commands
    ELSE NewCatalog[action_id].commands

\* C1: in every entry point, a child process is spawned (or its spawn is
\* attempted) only after the credential of that request passed the
\* signature/algorithm validation and the expiry check (exp < now false at the
\* moment of the check); a request whose credential is malformed, wrongly
\* signed or of another algorithm is rejected with no spawn and no report.
C1_ValidatedBeforeSpawn ==
    \A r \in Req :
        /\ (attempts[r] # << >> \/ IsSome(frame[r].child)) =>
             /\ WellSigned(Supplied(r))
             /\ \E g \in gate[r] : g.check = "signature"
             /\ \E g \in gate[r] : g.check = "expiry" /\ ~(Supplied(r).claims.exp < g.at)
        /\ (pc[r] # "idle" /\ ~WellSigned(Supplied(r))) =>
             /\ attempts[r] = << >>
             /\ reports[r] = << >>
             /\ pc[r] \in { "lock", "lookup", "decode", "done" }
             /\ pc[r] = "done" => Rejected(r)

\* C1 witness: a child of an HTTP request is running.
C1_Witness ==
    \E r \in Req : call[r].kind = "http" /\ pc[r] = "wait" /\ IsSome(frame[r].child)

\* C2: every command run by execute or HTTP execute is, position by position,
\* the forward list of the catalog entry the action id names, and every
\* command run by rollback is that entry's rollback list; program and
\* arguments are the whitespace split of the catalog text.  The run is thus a
\* function of the entry point and the action id alone, the same whatever
\* the parameters, the rollback id and the token carry.
C2_OnlyCatalogCommands ==
    \A r \in Req :
        attempts[r] # << >> =>
          /\ call[r].action_id \in CatalogIds
          /\ LET list == CatalogCommands(call[r].kind, call[r].action_id) IN
              /\ Len(attempts[r]) <= Len(list)
              /\ \A i \in DOMAIN attempts[r] :
                    /\ attempts[r][i].command = list[i]
                    /\ << attempts[r][i].program >> \o attempts[r][i].args
                         = SplitWhitespace(list[i])
              /\ pc[r] \in { "report", "post", "report wait", "return", "done" } =>
                   Len(attempts[r]) = Len(list)

\* C2 witness: a rollback carrying an id no execution returned has run its
\* whole list.
C2_Witness ==
    \E r \in Req :
        /\ pc[r] = "done"
        /\ attempts[r] # << >>
        /\ call[r].kind = "rollback"
        /\ call[r].rollback_id = "never-minted"

\* C3: in-process execute and rollback of an action id absent from the
\* catalog fail with the not-allowlisted error, whatever the credential, and
\* spawn nothing.
C3_UnknownActionRejected ==
    \A r \in Req :
        (InProcess(r) /\ call[r].action_id \notin CatalogIds) =>
          /\ attempts[r] = << >>
          /\ frame[r].child = None
          /\ reports[r] = << >>
          /\ pc[r] \in { "lock", "lookup", "done" }
          /\ pc[r] = "done" =>
               result[r] = Some(Err(Str("Action '{}' not allowlisted",
                                        << call[r].action_id >>)))

\* C3 witness: an execute of an unknown id with a valid credential was rejected.
C3_Witness ==
    \E r \in Req :
        /\ call[r].kind = "execute"
        /\ call[r].action_id \notin CatalogIds
        /\ WellSigned(call[r].token)
        /\ call[r].token.claims.exp > now
        /\ pc[r] = "done"

\* C4: a correctly signed credential with exp < now, however far below, makes
\* execute and rollback of a catalogued action fail with the "Token expired"
\* error (not the "Invalid token" one) and spawn nothing.
C4_ExpiredIsTokenExpired ==
    \A r \in Req :
        ( /\ InProcess(r)
          /\ call[r].action_id \in CatalogIds
          /\ WellSigned(call[r].token)
          /\ call[r].token.claims.exp < NowStart ) =>
          /\ attempts[r] = << >>
          /\ pc[r] = "done" => result[r] = Some(Err(Str("Token expired", << >>)))

\* C5: a correctly signed credential whose exp equals the clock is accepted
\* by execute, rollback and HTTP execute of a catalogued action: the request
\* is rejected neither as expired nor as unauthorized, and goes on to run its
\* commands (a rollback: when the entry can be rolled back).
C5_ExpiryBoundaryAccepted ==
    \A r \in Req :
        ( /\ pc[r] = "done"
          /\ call[r].action_id \in CatalogIds
          /\ WellSigned(Supplied(r))
          /\ Supplied(r).claims.exp = now ) =>
          /\ \E g \in gate[r] : g.check = "expiry"
          /\ IF call[r].kind = "rollback"
                /\ ( ~NewCatalog[call[r].action_id].reversible
                     \/ NewCatalog[call[r].action_id].rollback_commands = << >> )
             THEN result[r] = Some(Err(Str("Action '{}' is not reversible",
                                           << call[r].action_id >>)))
             ELSE ~Rejected(r) /\ attempts[r] # << >>

\* C5 witness: an execute whose expiry check read the clock at exactly exp
\* has run its commands and returned.
C5_Witness ==
    \E r \in Req :
        /\ pc[r] = "done"
        /\ call[r].kind = "execute"
        /\ WellSigned(call[r].token)
        /\ call[r].token.claims.exp = now
        /\ \E g \in gate[r] : g.check = "expiry" /\ g.at = call[r].token.claims.exp
        /\ attempts[r] # << >>
        /\ IsOk(result[r].some)

\* An entry that rollback must refuse.
Irreversible(action_id) ==
    \/ ~NewCatalog[action_id].reversible
    \/ NewCatalog[action_id].rollback_commands = << >>

\* C6: rollback of a catalog entry with reversible = false or an empty
\* rollback list fails with the not-reversible error whatever the
\* credential: valid, invalid or expired.
C6_AlwaysNotReversible ==
    \A r \in Req :
        ( /\ call[r].kind = "rollback"
          /\ call[r].action_id \in CatalogIds
          /\ Irreversible(call[r].action_id)
          /\ pc[r] = "done" ) =>
          result[r] = Some(Err(Str("Action '{}' is not reversible",
                                   << call[r].action_id >>)))

\* C7: rollback reaches the engine only for an action that exists, is
\* reversible and has a non-empty rollback list; otherwise it returns an error
\* with no spawn, no "rolling_back" status and no report.
C7_RollbackPreconditions ==
    \A r \in Req :
        call[r].kind = "rollback" =>
          LET id == call[r].action_id
              allowed == id \in CatalogIds /\ ~Irreversible(id) IN
            /\ ( \/ pc[r] \in { "loop", "wait", "report", "post", "report wait", "return" }
                 \/ attempts[r] # << >>
                 \/ events[r] # << >>
                 \/ reports[r] # << >>
                 \/ IsSome(frame[r].result) ) => allowed
            /\ ~allowed =>
                 /\ attempts[r] = << >>
                 /\ events[r] = << >>
                 /\ reports[r] = << >>
                 /\ pc[r] = "done" => ~IsOk(result[r].some)

\* C7 witness: a rollback of an entry with an empty rollback list, under a
\* valid credential, was refused as not reversible.
C7_Witness ==
    \E r \in Req :
        /\ call[r].kind = "rollback"
        /\ call[r].action_id \in CatalogIds
        /\ NewCatalog[call[r].action_id].rollback_commands = << >>
        /\ pc[r] = "done"
        /\ result[r] = Some(Err(Str("Action '{}' is not reversible",
                                    << call[r].action_id >>)))

\* The engine has been called in request r.
EngineCalled(r) == frame[r].commands # << >>

\* The engine has returned in request r.
EngineReturned(r) == IsSome(frame[r].result)

\* Attempt a has completed with exit status zero.
StepOk(a) == a.status = "exited" /\ a.out.some.success

\* C8: in one run of the engine every command of the list is attempted
\* exactly once, in list order, each one only after the one before it has
\* completed; a step that exits non-zero or fails to spawn does not keep any
\* later command from running.
C8_EveryCommandOnceInOrder ==
    \A r \in Req :
        EngineCalled(r) =>
          LET f == frame[r]
              at == attempts[r] IN
            /\ \A i \in DOMAIN at : at[i].index = i /\ at[i].command = f.commands[i]
            /\ pc[r] = "loop" =>
                 /\ Len(at) = f.idx - 1
                 /\ f.child = None
                 /\ \A i \in DOMAIN at : at[i].status # "running"
            /\ pc[r] = "wait" =>
                 /\ Len(at) = f.idx
                 /\ \A i \in DOMAIN at : at[i].status = "running" <=> i = f.idx
            /\ EngineReturned(r) =>
                 /\ Len(at) = Len(f.commands)
                 /\ \A i \in DOMAIN at : at[i].status # "running"

\* C8 witness: a run of three commands has returned although the first failed
\* to spawn and the second exited non-zero.
C8_Witness ==
    \E r \in Req :
        /\ EngineReturned(r)
        /\ Len(frame[r].commands) = 3
        /\ Len(attempts[r]) = 3
        /\ attempts[r][1].status = "spawn failed"
        /\ attempts[r][2].status = "exited" /\ ~attempts[r][2].out.some.success
        /\ attempts[r][3].status = "exited"

\* C9: the aggregate success is the conjunction of the steps: while the
\* engine runs it is true iff every step completed so far spawned and exited
\* with status zero (so no later step sets it back to true), and the value
\* returned is true iff every command of the list did.
C9_AggregateSuccess ==
    \A r \in Req :
        LET f == frame[r]
            at == attempts[r] IN
          /\ (EngineCalled(r) /\ pc[r] \in { "loop", "wait" }) =>
               ( f.all_success <=>
                   \A i \in DOMAIN at : at[i].status # "running" => StepOk(at[i]) )
          /\ EngineReturned(r) =>
               ( f.result.some.ok.success <=>
                   \A i \in 1 .. Len(f.commands) : i \in DOMAIN at /\ StepOk(at[i]) )

\* C9 witness: the engine returned false after a run whose first step failed
\* and whose last step succeeded.
C9_Witness ==
    \E r \in Req :
        /\ EngineReturned(r)
        /\ ~frame[r].result.some.ok.success
        /\ Len(attempts[r]) >= 2
        /\ ~StepOk(attempts[r][1])
        /\ StepOk(attempts[r][Len(attempts[r])])

\* The pieces that open the block of a step.
IsHeader(piece) ==
    piece.fmt \in { "Command: {}\n", "Failed to execute command '{}': {}\n" }

\* The positions of the block openers in a transcript, in order.
HeaderPositions(text) ==
    LET idx == { k \in 1 .. Len(text) : IsHeader(text[k]) } IN
      [ i \in 1 .. Cardinality(idx) |->
          CHOOSE k \in idx : Cardinality({ j \in idx : j <= k }) = i ]

\* The pieces of the i-th block of a transcript, its opener excluded.
BlockBody(text, i) ==
    LET pos == HeaderPositions(text)
        last == IF i < Len(pos) THEN pos[i + 1] - 1 ELSE Len(text) IN
      { text[k] : k \in pos[i] + 1 .. last }

\* C10: the transcript the engine returns holds one block per command of the
\* list, in list order, whether the command succeeded, exited non-zero or
\* failed to spawn, and each block holds what the command wrote; so the
\* output of a command that ran after a failed one is there.
C10_TranscriptBlocks ==
    \A r \in Req :
        EngineReturned(r) =>
          LET f == frame[r]
              at == attempts[r]
              text == f.result.some.ok.output
              pos == HeaderPositions(text) IN
            /\ Len(pos) = Len(f.commands)
            /\ \A i \in 1 .. Len(pos) :
                 /\ text[pos[i]].args[1] = f.commands[i]
                 /\ i \in DOMAIN at
                 /\ at[i].status = "exited" =>
                      /\ text[pos[i]].fmt = "Command: {}\n"
                      /\ at[i].out.some.stdout # "" =>
                           \E p \in BlockBody(text, i) :
                             p.fmt = "Output: {}\n" /\ p.args = << at[i].out.some.stdout >>
                      /\ at[i].out.some.stderr # "" =>
                           \E p \in BlockBody(text, i) :
                             p.fmt = "Error: {}\n" /\ p.args = << at[i].out.some.stderr >>
                 /\ at[i].status = "spawn failed" =>
                      text[pos[i]].fmt = "Failed to execute command '{}': {}\n"

\* C10 witness: the transcript of a returned run holds the "ok" written by a
\* second command whose predecessor exited non-zero.
C10_Witness ==
    \E r \in Req :
        /\ EngineReturned(r)
        /\ Len(attempts[r]) >= 2
        /\ attempts[r][1].status = "exited" /\ ~attempts[r][1].out.some.success
        /\ attempts[r][2].status = "exited" /\ attempts[r][2].out.some.stdout = "ok"
        /\ \E p \in BlockBody(frame[r].result.some.ok.output, 2) :
             p.fmt = "Output: {}\n" /\ p.args = << "ok" >>

\* C11: the report of an execution (in-process or HTTP) carries a
\* RollbackPoint exactly when the aggregate success of that execution is
\* true, that is exactly when every command of the batch was spawned and
\* exited with status zero; the point names the action and the hash of the
\* transcript that was reported.
C11_RollbackPointIffSuccess ==
    \A r \in Req :
        call[r].kind \in { "execute", "http" } =>
          \A i \in DOMAIN reports[r] :
            LET p == reports[r][i].payload IN
              /\ IsSome(p.rollbackPoint) <=> p.success
              /\ p.success <=> (\A k \in DOMAIN attempts[r] : StepOk(attempts[r][k]))
              /\ IsSome(p.rollbackPoint) =>
                   /\ p.rollbackPoint.some.method = "command_sequence"
                   /\ p.rollbackPoint.some.data.action_id = call[r].action_id
                   /\ p.rollbackPoint.some.data.output_hash = Base64(p.output)

\* C11 witness: the report of an execution whose batch had a failing command
\* has been sent, and carries no rollback point.
C11_Witness ==
    \E r \in Req :
        /\ call[r].kind = "execute"
        /\ reports[r] # << >>
        /\ \E k \in DOMAIN attempts[r] : ~StepOk(attempts[r][k])
        /\ ~IsSome(reports[r][1].payload.rollbackPoint)

\* Every command of request r's batch was spawned and exited with status zero.
AllStepsOk(r) == \A k \in DOMAIN attempts[r] : StepOk(attempts[r][k])

\* C12: a failure of the Reporting Client (transport error or non-success
\* status) never changes the outcome returned to the caller.  In execute,
\* rollback and HTTP execute alike the returned success flag, transcript,
\* error, artifacts and presence of a rollback id are those the engine run
\* determines, whatever the report attempt ended with; and the report is
\* attempted exactly once after an engine run and never otherwise, so it is
\* never retried.
C12_ReportFailureIgnored ==
    \A r \in Req :
        /\ Len(reports[r]) <= 1
        /\ (reports[r] # << >>) <=> (EngineReturned(r) /\ pc[r] \in { "report wait", "return", "done" })
        /\ (pc[r] = "done" /\ EngineReturned(r)) =>
             LET out == frame[r].output
                 res == result[r].some IN
               CASE call[r].kind = "execute" ->
                      /\ IsOk(res)
                      /\ res.ok.success = AllStepsOk(r)
                      /\ res.ok.message = out
                      /\ res.ok.error = IF AllStepsOk(r) THEN None ELSE Some(out)
                      /\ res.ok.artifacts = Some(CreateArtifacts(call[r].action_id, out))
                      /\ IsSome(res.ok.rollback_id) = NewCatalog[call[r].action_id].reversible
                 [] call[r].kind = "rollback" ->
                      /\ IsOk(res)
                      /\ res.ok.success = AllStepsOk(r)
                      /\ res.ok.message = out
                      /\ res.ok.error = IF AllStepsOk(r) THEN None ELSE Some(out)
                      /\ res.ok.artifacts = Some(<< >>)
                      /\ res.ok.rollback_id = None
                 [] OTHER ->
                      res = HttpResponse(AllStepsOk(r), out)

\* C12 witness: a request whose every command succeeded has returned success
\* although its report ended with an error.
C12_Witness ==
    \E r \in Req :
        /\ pc[r] = "done" /\ EngineReturned(r)
        /\ AllStepsOk(r)
        /\ reports[r] # << >> /\ ~IsOk(reports[r][1].outcome.some)
        /\ call[r].kind = "rollback"
        /\ IsOk(result[r].some) /\ result[r].some.ok.success

\* C13: every outbound report, of an execution or of a rollback, in-process
\* or over HTTP, carries as its bearer credential exactly the credential the
\* caller supplied with the request being reported.
C13_ReportCarriesCallerToken ==
    \A r \in Req :
        \A i \in DOMAIN reports[r] : reports[r][i].bearer = Supplied(r)

\* C13 witness: the report of an HTTP execution has been sent with the token
\* of the request's Authorization header.
C13_Witness ==
    \E r \in Req :
        /\ call[r].kind = "http"
        /\ reports[r] # << >>
        /\ reports[r][1].bearer = call[r].authorization.some.credentials

\* C14: rollback never mints a correlation id: every outcome a rollback
\* returns, a rejection or the result of an engine run, successful or not,
\* has no rollback id.
C14_RollbackMintsNoId ==
    \A r \in Req :
        (call[r].kind = "rollback" /\ IsSome(result[r])) =>
          \/ ~IsOk(result[r].some)
          \/ result[r].some.ok.rollback_id = None

\* C14 witness: a rollback has run its batch to the end and returned.
C14_Witness ==
    \E r \in Req :
        /\ call[r].kind = "rollback"
        /\ pc[r] = "done" /\ EngineReturned(r)
        /\ attempts[r] # << >>
        /\ IsOk(result[r].some) /\ ~result[r].some.ok.success

\* C17: no operation changes the catalog after construction: in every
\* reachable state the catalog the in-process commands read and the catalog
\* the HTTP handler reads both equal the catalog built at startup (and so
\* each other), and the secret beside them is the one read at startup.
C17_CatalogImmutable ==
    /\ app_state.actions = NewCatalog
    /\ http_state.actions = NewCatalog
    /\ app_state.jwt_secret = DefaultSecret
    /\ http_state.jwt_secret = DefaultSecret

\* C17 witness: a rollback has run commands and returned while the HTTP
\* server is up, and both catalogs still hold the entry it looked up.
C17_Witness ==
    \E r \in Req :
        /\ server = "serving"
        /\ call[r].kind = "rollback"
        /\ pc[r] = "done" /\ attempts[r] # << >>
        /\ app_state.actions[call[r].action_id] = frame[r].action.some
        /\ http_state.actions[call[r].action_id] = frame[r].action.some

\* C18: every catalog entry that is reversible and has creates_backup set
\* has a non-empty rollback list, in the in-process catalog and in the HTTP
\* catalog alike.
C18_BackupImpliesRollbackList ==
    \A actions \in { app_state.actions, http_state.actions } :
        \A id \in DOMAIN actions :
            (actions[id].reversible /\ actions[id].creates_backup) =>
                actions[id].rollback_commands # << >>

\* C18 witness: the rollback list of an entry marked reversible and
\* creates_backup is being run.
C18_Witness ==
    \E r \in Req :
        /\ call[r].kind = "rollback"
        /\ pc[r] = "wait"
        /\ frame[r].action.some.reversible /\ frame[r].action.some.creates_backup
        /\ frame[r].commands = app_state.actions[call[r].action_id].rollback_commands
        /\ frame[r].commands # << >>

\* Request r, once done, holds the outcome of its own batch and action: its
\* success flag, transcript, error and artifacts are those of the commands
\* it ran itself, and a rejected request ran nothing.
OwnOutcome(r) ==
    pc[r] = "done" =>
      IF EngineReturned(r)
      THEN /\ IsOk(result[r].some)
           /\ result[r].some.ok.success = AllStepsOk(r)
           /\ result[r].some.ok.message = frame[r].output
           /\ Len(attempts[r]) = Len(CatalogCommands(call[r].kind, call[r].action_id))
           /\ \A k \in DOMAIN attempts[r] :
                attempts[r][k].command =
                  CatalogCommands(call[r].kind, call[r].action_id)[k]
           /\ call[r].kind = "execute" =>
                /\ result[r].some.ok.artifacts =
                     Some(CreateArtifacts(call[r].action_id, frame[r].output))
                /\ IsSome(result[r].some.ok.rollback_id)
      ELSE /\ ~IsOk(result[r].some)
           /\ attempts[r] = << >>

C16_LockOnlyAroundLookup ==
    /\ lock \in Slots \cup { "free" }
    /\ \A r \in Slots :
         /\ (lock = r) <=> (pc[r] = "lookup")
         /\ (gate[r] # { } \/ attempts[r] # << >> \/ IsSome(frame[r].child)) => lock # r
         /\ pc[r] \in { "decode", "expiry", "compat", "reversible", "loop", "wait",
                        "report", "post", "report wait", "return" } =>
              /\ lock # r
              /\ IsSome(frame[r].action) /\ frame[r].jwt_secret = Some(app_state.jwt_secret)

\* C16 witness: two requests are both part-way through their batches, each
\* with a child running: an execution, and a rollback of another action whose
\* first command is done.
C16_Witness ==
    /\ call["r1"].kind = "execute" /\ call["r2"].kind = "rollback"
    /\ pc["r1"] = "wait" /\ pc["r2"] = "wait"
    /\ IsSome(frame["r1"].child) /\ IsSome(frame["r2"].child)
    /\ Len(attempts["r2"]) = 2
    /\ lock = "free"

\* The child request r waits on never terminates.
Hung(r) == pc[r] = "wait" /\ ~frame[r].child.some.halts

\* The report POST of request r is never answered.
Unanswered(r) == pc[r] = "report wait" /\ ~frame[r].post.some.answers

C19_OneOutcomeReturnOrHang ==
    /\ [](\A r \in Req : (pc[r] = "done") <=> IsSome(result[r]))
    /\ [][\A r \in Req :
            result'[r] # result[r] =>
              \/ result[r] = None /\ pc[r] # "done" /\ pc'[r] = "done"
              \/ pc[r] = "done" /\ pc'[r] = "idle" /\ result'[r] = None]_vars
    /\ \A r \in Req : (pc[r] # "idle") ~> (pc[r] = "done" \/ Hung(r) \/ Unanswered(r))
    /\ [][\A r \in Req :
            Hung(r) => /\ pc'[r] = "wait" /\ frame'[r] = frame[r]
                       /\ attempts'[r] = attempts[r]
                       /\ reports'[r] = reports[r]
                       /\ result'[r] = None]_vars

\* C19 witness: the first child of a two-command batch never terminates; the
\* second command has not run and nothing was returned.
C19_Witness ==
    \E r \in Req :
        /\ call[r].kind = "execute"
        /\ Hung(r)
        /\ Len(attempts[r]) = 1 /\ Len(frame[r].commands) = 2
        /\ result[r] = None /\ reports[r] = << >>

\* How a finished execute request ended: "ran" when the engine was run, else
\* the kind of its rejection, read off the returned error text.
Ending(r) ==
    IF EngineReturned(r) THEN "ran"
    ELSE LET text == IF InProcess(r) THEN result[r].some.err ELSE result[r].some.output
             t == text[1].fmt IN
           CASE t \in { "Invalid token: {}", "Unauthorized" } -> "unauthorized"
             [] t = "Token expired" -> "expired"
             [] t = "Action '{}' not allowlisted" -> "not allowlisted"
             [] OTHER -> "other"

\* What the children of request r did, step by step.
Exits(r) == [ k \in DOMAIN attempts[r] |-> << attempts[r][k].status, attempts[r][k].out >> ]

\* The in-process execute and the HTTP execute were given the same action id
\* and credential, and both have returned.
BothReturned == pc["r1"] = "done" /\ pc["r2"] = "done"

\* The two paths ended alike: the same ending, the same command list handed
\* to the engine, and for children that behaved alike the same aggregate
\* success and transcript.
SameEnding ==
    /\ Ending("r1") = Ending("r2")
    /\ frame["r1"].commands = frame["r2"].commands
    /\ Exits("r1") = Exits("r2") =>
         /\ result["r1"].some.ok.success = result["r2"].some.success
         /\ result["r1"].some.ok.message = result["r2"].some.output

\* C20 as stated: for every action id and every credential, the HTTP execute
\* and the in-process execute agree on whether the request is rejected or
\* runs commands, on the kind of rejection, on the command list run and on
\* the aggregate success and transcript returned.
C20_HttpMirrorsInProcess ==
    BothReturned =>
      /\ Ending("r1") = Ending("r2")
      /\ Ending("r1") = "ran" => SameEnding

\* C20 amended: the two paths agree, in all of the above, for every
\* catalogued action id and every credential.  For an id that is not in the
\* catalog the in-process path always answers "not allowlisted", while the
\* HTTP path, which validates the credential first, answers what the
\* credential dictates: unauthorized, expired, or, for a valid credential
\* only, "not allowlisted".
C20_MirrorOnCatalogued ==
    BothReturned =>
      IF call["r1"].action_id \in CatalogIds
      THEN /\ Ending("r1") = Ending("r2")
           /\ Ending("r1") = "ran" => SameEnding
      ELSE /\ Ending("r1") = "not allowlisted"
           /\ Ending("r2") =
                IF ~IsOk(DecodeToken(Supplied("r2"), DefaultSecret, now)) THEN "unauthorized"
                ELSE IF Expired(Supplied("r2").claims.exp, now) THEN "expired"
                ELSE "not allowlisted"

\* C20 witness: both paths ran the two commands of the same action, their
\* children behaved alike with one failing, and both returned the same
\* failure and transcript.
C20_Witness ==
    /\ BothReturned
    /\ Ending("r1") = "ran" /\ Ending("r2") = "ran"
    /\ Len(attempts["r1"]) = 2 /\ Exits("r1") = Exits("r2")
    /\ ~AllStepsOk("r1")
    /\ ~result["r2"].some.success
    /\ result["r1"].some.ok.message = result["r2"].some.output

\* C21: acceptance of a credential does not depend on its decoded action id,
\* approval id or scope.  A request is rejected on account of its credential
\* only when the credential is not a correctly signed JWS of the configured
\* algorithm or its exp lies in the past; so a correctly signed, unexpired
\* credential whose claims name action A, another approval or another scope
\* is accepted for executing or rolling back any catalogued action B, and the
\* commands run are those of B.
C21_ClaimsNotCrossChecked ==
    \A r \in Req :
        /\ (pc[r] = "done" /\ Ending(r) \in { "unauthorized", "expired" }) =>
             \/ ~WellSigned(Supplied(r))
             \/ Supplied(r).claims.exp < now
        /\ attempts[r] # << >> =>
             \A k \in DOMAIN attempts[r] :
                 attempts[r][k].command =
                   CatalogCommands(call[r].kind, call[r].action_id)[k]

\* C21 witness: a rollback of clear-app-cache has run to the end under a
\* credential issued for flush-dns-macos with another approval and scope.
C21_Witness ==
    \E r \in Req :
        /\ call[r].kind = "rollback" /\ call[r].action_id = "clear-app-cache"
        /\ pc[r] = "done" /\ EngineReturned(r)
        /\ Supplied(r).claims = OtherScopeToken.claims
        /\ frame[r].claims.some.action_id = "flush-dns-macos"
        /\ frame[r].claims.some.scope = "diagnostics:read"
        /\ Len(attempts[r]) = Len(NewCatalog["clear-app-cache"].rollback_commands)

\* C22: the rollback id is opaque to rollback.  Whatever id is passed, one an
\* execution returned or one never returned by any, a rollback of a
\* catalogued action with a non-empty rollback list under a correctly signed,
\* unexpired credential is accepted, runs that action's rollback list and
\* returns the outcome of that run; and the id reaches nothing but the
\* rollback report, which carries it unchanged.
C22_RollbackIdOpaque ==
    \A r \in Req :
        call[r].kind = "rollback" =>
          /\ ( /\ pc[r] = "done"
               /\ call[r].action_id \in CatalogIds
               /\ WellSigned(Supplied(r))
               /\ ~NotReversible(NewCatalog[call[r].action_id])
               /\ Supplied(r).claims.exp >= now ) =>
                 /\ EngineReturned(r)
                 /\ frame[r].commands = NewCatalog[call[r].action_id].rollback_commands
                 /\ IsOk(result[r].some)
                 /\ result[r].some.ok = RollbackResult(AllStepsOk(r), frame[r].output)
          /\ \A i \in DOMAIN reports[r] :
               reports[r][i].payload.rollbackId = call[r].rollback_id

\* C22 witness: a rollback called with an id no execution ever returned has
\* run the rollback list, reported with that id and returned success.
C22_Witness ==
    \E r \in Req :
        /\ call[r].kind = "rollback"
        /\ call[r].rollback_id \notin Uuids
        /\ pc[r] = "done" /\ EngineReturned(r)
        /\ result[r].some.ok.success
        /\ reports[r] # << >>
        /\ reports[r][1].payload.rollbackId = call[r].rollback_id

\* The captured text holds none of the phrases the probe recognises.
NoRecognizedPattern(name, out) ==
    CASE name = "firewall" ->
           ~Contains(out, << "enabled" >>) /\ ~Contains(out, << "State = 1" >>)
      [] name = "filevault" -> ~Contains(ToLowercase(out), << "filevault is on" >>)
      [] OTHER -> ~Contains(ToLowercase(out), << "enabled" >>)

\* C23 as stated: a firewall, FileVault or SIP probe on a supported platform
\* whose tool output holds none of the recognised patterns (the tool may have
\* failed to run) never answers "disabled", that is never supported = true
\* with enabled = false.
C23_UnknownNeverDisabled ==
    \A r \in Req :
        (/\ call[r].kind = "probe" /\ pc[r] = "done"
         /\ call[r].name \in { "firewall", "filevault", "sip" }) =>
          LET resp == result[r].some IN
            (resp.supported /\ NoRecognizedPattern(call[r].name, resp.raw)) =>
              ~(resp.supported /\ ~resp.enabled)

\* C24: when the bind of the loopback port fails, the control-plane task
\* ends without serving: no HTTP request is ever handled and the server never
\* comes up later.  The host keeps running: no request slot is lost, and the
\* in-process execute, rollback and health commands can still be invoked.
C24_BindFailureDegrades ==
    /\ [](server \in { "starting", "serving", "not started" })
    /\ [](server = "not started" =>
            \A r \in Req :
                /\ pc[r] # "crashed"
                /\ call[r].kind \notin { "http", "probe" }
                /\ pc[r] = "idle" =>
                     /\ ENABLED InvokeLive(r)
                     /\ ENABLED GetHealthStatus(r))
    /\ [][server = "not started" => server' = "not started"]_vars

\* C24 witness: after a failed bind, an execution has run its batch and
\* returned success.
C24_Witness ==
    \E r \in Req :
        /\ server = "not started"
        /\ call[r].kind = "execute"
        /\ pc[r] = "done" /\ EngineReturned(r)
        /\ result[r].some.ok.success

\* C25: an in-process execution that ran its batch returns a rollback id
\* exactly when the reversible flag of its action is true, whatever the
\* aggregate success of the commands and whether or not the action has a
\* rollback list; an execution rejected before the engine returns none.
C25_RollbackIdIffReversibleFlag ==
    \A r \in Req :
        (call[r].kind = "execute" /\ pc[r] = "done") =>
          IF EngineReturned(r)
          THEN /\ IsOk(result[r].some)
               /\ IsSome(result[r].some.ok.rollback_id) =
                    NewCatalog[call[r].action_id].reversible
               /\ IsSome(result[r].some.ok.rollback_id) => 
                    result[r].some.ok.rollback_id.some \in Uuids
          ELSE ~IsOk(result[r].some)

\* C25 witness: an execution of an action with no rollback list, whose
\* rollback would be rejected as not reversible, failed and still returned
\* a rollback id.
C25_Witness ==
    \E r \in Req :
        /\ call[r].kind = "execute"
        /\ pc[r] = "done" /\ EngineReturned(r)
        /\ ~result[r].some.ok.success
        /\ NotReversible(frame[r].action.some)
        /\ frame[r].action.some.rollback_commands = << >>
        /\ IsSome(result[r].some.ok.rollback_id)

\* C26: every request that reaches the execution engine (execute, rollback
\* or HTTP execute) makes exactly one report attempt, made after the last
\* command of its batch has completed and before the outcome is returned;
\* every request rejected before the engine makes none.
C26_OneReportPerEngineRun ==
    \A r \in Req :
        call[r].kind \in { "execute", "rollback", "http" } =>
          /\ reports[r] # << >> =>
               /\ Len(reports[r]) = 1
               /\ EngineReturned(r)
               /\ frame[r].idx = Len(frame[r].commands) + 1
               /\ \A k \in DOMAIN attempts[r] : attempts[r][k].status # "running"
               /\ frame[r].child = None \/ pc[r] # "wait"
          /\ IsSome(result[r]) =>
               Len(reports[r]) = IF EngineCalled(r) THEN 1 ELSE 0
          /\ (pc[r] = "done" /\ Rejected(r)) => reports[r] = << >>

\* C26 witness: an HTTP execution has run both commands of its batch, sent
\* its one report and not yet answered.
C26_Witness ==
    \E r \in Req :
        /\ call[r].kind = "http"
        /\ pc[r] = "return"
        /\ Len(attempts[r]) = 2
        /\ Len(reports[r]) = 1
        /\ result[r] = None

\* The credential of HTTP request r is missing, malformed, wrongly signed, or
\* had expired before the program started.
BadCredential(r) ==
    \/ ~IsSome(call[r].authorization)
    \/ call[r].authorization.some.scheme # "Bearer"
    \/ ~WellSigned(call[r].authorization.some.credentials)
    \/ call[r].authorization.some.credentials.claims.exp < NowStart

\* C27: on the HTTP execute endpoint the credential is validated before the
\* catalog is consulted: the catalog has been read only for a request whose
\* credential passed the signature and expiry checks, and a request with a
\* missing, malformed, wrongly signed or expired credential is answered
\* "Unauthorized" or "Token expired", a response that does not mention the
\* action id, whether the id is in the catalog or not.  The in-process
\* commands look the action up first: an uncatalogued id is answered "not
\* allowlisted" with no credential check made.
C27_HttpValidatesBeforeLookup ==
    \A r \in Req :
        /\ call[r].kind = "http" =>
             /\ (IsSome(frame[r].action) \/ pc[r] = "http lookup") =>
                  { g.check : g \in gate[r] } = { "signature", "expiry" }
             /\ (pc[r] = "done" /\ BadCredential(r)) =>
                  /\ frame[r].action = None
                  /\ frame[r].commands = << >>
                  /\ result[r].some \in
                       { HttpResponse(FALSE, Str("Unauthorized", << >>)),
                         HttpResponse(FALSE, Str("Token expired", << >>)) }
        /\ (InProcess(r) /\ pc[r] = "done" /\ call[r].action_id \notin DOMAIN NewCatalog) =>
             /\ result[r].some =
                  Err(Str("Action '{}' not allowlisted", << call[r].action_id >>))
             /\ gate[r] = { }

\* C27 witness: an HTTP request for an id outside the catalog, carrying a
\* well-signed credential that has expired, has been answered "Token expired".
C27_Witness ==
    \E r \in Req :
        /\ call[r].kind = "http"
        /\ pc[r] = "done"
        /\ call[r].action_id \notin DOMAIN NewCatalog
        /\ IsSome(call[r].authorization)
        /\ call[r].authorization.some.scheme = "Bearer"
        /\ WellSigned(call[r].authorization.some.credentials)
        /\ call[r].authorization.some.credentials.claims.exp < NowStart
        /\ result[r].some = HttpResponse(FALSE, Str("Token expired", << >>))
====
